---- MODULE Spec2Model ----
(***************************************************************************)
(* Lingualink server: the backend pool (load_balancer.py), the dispatcher  *)
(* loop that borrows a backend per attempt (llm_service_v2.py), the        *)
(* credential verification layer with its cache (auth_service.py,          *)
(* redis_cache.py) and the translate route with its temporary files        *)
(* (audio_routes.py, audio_processor.py, audio_converter.py).              *)
(*                                                                         *)
(* Granularity.  process_audio runs on worker threads (run_in_threadpool), *)
(* the operator routes and the health probes run on the event-loop thread. *)
(* Every block under LLMLoadBalancer._lock is one step; every statement    *)
(* outside the lock that reads shared state is a step of its own, so a     *)
(* membership test and the locked update that follows it can be separated  *)
(* by a step of another thread.  The operator routes contain no await and  *)
(* are therefore serialized with each other and with the probe callbacks.  *)
(* The credential operations run in different processes (server, CLI) over *)
(* one store and one cache: every store transaction and every cache        *)
(* command is one step.  Timestamps (last_check_time, last_used_at,        *)
(* cached_at) are not represented.                                         *)
(***************************************************************************)
EXTENDS Integers, Sequences, FiniteSets, TLC

\* ------------------------------------------------------------------ bounds
NumReqs == 2            \* concurrent process_audio calls
NumProbers == 1         \* probe coroutines in flight
MaxRetries == 1         \* load_balancer.max_retries of the modelled run
FailureThreshold == 2   \* load_balancer.failure_threshold of the modelled run
MaxWeight == 2          \* weights given to add_backend
MaxConnCfg == 1         \* max_connections given to every backend
MaxDuration == 1        \* measured durations, in ticks
MaxOps == 2             \* operator calls and probes started in one run

NumHandlers == 1        \* request slots of the route
NumProcs == 2           \* processes calling AuthService at a time
MaxCalls == 3           \* AuthService calls started in one run
MaxPicks == 5           \* select_backend calls whose connection is still held
NumJobs == 3            \* process_and_convert_audio calls in one run
ConcurrencySlots == 1   \* settings.max_concurrent_audio_conversions of the run
ConverterWorkers == 2   \* settings.audio_converter_workers of the run
CacheTtl == 2           \* settings.api_key_cache_ttl of the run, in ticks
NumCallers == 2         \* operators calling start and stop of the health check
MaxHcCalls == 4         \* calls of start_health_check and stop_health_check
MaxLines == 2           \* lines of a reply
MaxLineLen == 3         \* characters of a line of a reply

\* ------------------------------------------------------- program constants
RingNodesPerWeight == 10
RespWindow == 50
\* BackendConfig.timeout, the unit of time
TimeoutTicks == 1
KeyPrefixLen == 16
\* AudioConverter.WAV_CONFIG
WavFrameRate == 16000
WavChannels == 1
WavSampleWidth == 2

Names == {"A", "B"}
ReqKeys == {"default"}
Reqs == 1..NumReqs
Probers == 1..NumProbers
Durations == 1..MaxDuration

Strategies == {"round_robin", "weighted_round_robin", "least_connections",
               "random", "consistent_hash", "response_time"}

NoCfg == [absent |-> TRUE]
NoMetrics == [absent |-> TRUE]
NoName == "-"

VARIABLES backends, metrics, mOrder, clients, strategy, rrIndex,
          req, admin, probe, nOps,
          authEnabled, cacheEnabled, store, cache, proc, nCalls,
          handler, files,
          job, cm, cmGlobal, disk,
          hcTask, loops, waiter, hcCalls,
          invalidFor,
          reply, parsed

lbVars == <<backends, metrics, mOrder, clients, strategy, rrIndex,
            req, admin, probe, nOps>>
authVars == <<authEnabled, cacheEnabled, store, cache, proc, nCalls>>
routeVars == <<handler, files>>
convVars == <<job, cm, cmGlobal, disk>>
loopVars == <<hcTask, loops, waiter, hcCalls>>
parseVars == <<reply, parsed>>
restVars == <<convVars, loopVars, invalidFor, parseVars>>
vars == <<lbVars, authVars, routeVars, restVars>>

\* ---------------------------------------------------------------- helpers
Registered(b) == metrics[b] # NoMetrics

BackendConfig(w, mc) == [weight |-> w, max_connections |-> mc]

BackendMetrics ==
    [status |-> "healthy", total_requests |-> 0, successful_requests |-> 0,
     failed_requests |-> 0, active_connections |-> 0, response_times |-> <<>>,
     consecutive_failures |-> 0, last_error |-> "None"]

RECURSIVE SumSeq(_)
SumSeq(s) == IF s = <<>> THEN 0 ELSE Head(s) + SumSeq(Tail(s))

\* response_times after update_response_time: append, keep the last 50
AppendWindow(times, t) ==
    LET a == Append(times, t)
    IN  IF Len(a) > RespWindow THEN SubSeq(a, Len(a) - RespWindow + 1, Len(a))
        ELSE a

update_response_time(m, t) ==
    [m EXCEPT !.response_times = AppendWindow(@, t)]

\* average_response_time = statistics.mean(response_times), 0.0 before the
\* first sample; kept as the pair <<sum, count>> and compared as a fraction
AvgPositive(m) == Len(m.response_times) > 0 /\ SumSeq(m.response_times) > 0
AvgLess(m1, m2) ==
    SumSeq(m1.response_times) * Len(m2.response_times)
        < SumSeq(m2.response_times) * Len(m1.response_times)

RECURSIVE FilterHealthy(_)
FilterHealthy(order) ==
    IF order = <<>> THEN <<>>
    ELSE LET rest == FilterHealthy(Tail(order))
         IN  IF metrics[Head(order)].status = "healthy"
             THEN <<Head(order)>> \o rest ELSE rest

\* _get_available_backends without its status test
AllBackends == mOrder

\* _get_available_backends: the names, in dict order, whose status is HEALTHY
GetAvailableBackends == FilterHealthy(mOrder)

\* ------------------------------------------------------ selection policies
\* A policy's outcome: the name it returns (NoName for None), the cursor it
\* leaves in _round_robin_index, and whether a KeyError left the call.
Outcome(b, rr, err) == [backend |-> b, rr |-> rr, err |-> err]

RECURSIVE Repeat(_, _)
Repeat(x, n) == IF n <= 0 THEN <<>> ELSE <<x>> \o Repeat(x, n - 1)

RECURSIVE WeightedList(_)
WeightedList(avail) ==
    IF avail = <<>> THEN <<>>
    ELSE Repeat(Head(avail), backends[Head(avail)].weight)
             \o WeightedList(Tail(avail))

Range(s) == {s[i] : i \in 1..Len(s)}

round_robin_select(avail) ==
    {Outcome(avail[(rrIndex % Len(avail)) + 1],
             (rrIndex + 1) % Len(avail), FALSE)}

weighted_round_robin_select(avail) ==
    IF \E b \in Range(avail) : backends[b] = NoCfg
    THEN {Outcome(NoName, rrIndex, TRUE)}
    ELSE LET wl == WeightedList(avail)
         IN  IF wl = <<>> THEN {Outcome(avail[1], rrIndex, FALSE)}
             ELSE {Outcome(wl[(rrIndex % Len(wl)) + 1],
                           (rrIndex + 1) % Len(wl), FALSE)}

\* the first name of the list with the fewest active connections
least_connections_select(avail) ==
    IF \E b \in Range(avail) : ~Registered(b)
    THEN {Outcome(NoName, rrIndex, TRUE)}
    ELSE LET i == CHOOSE i \in 1..Len(avail) :
                    /\ \A j \in 1..Len(avail) :
                          metrics[avail[i]].active_connections
                              <= metrics[avail[j]].active_connections
                    /\ \A j \in 1..(i - 1) :
                          metrics[avail[j]].active_connections
                              > metrics[avail[i]].active_connections
         IN  {Outcome(avail[i], rrIndex, FALSE)}

random_select(avail) ==
    {Outcome(avail[i], rrIndex, FALSE) : i \in 1..Len(avail)}

\* the ring: the virtual nodes "name#i" (i < 30) of the names A, B and C in
\* ascending order of int(md5("name#i")); KeyPos(k) counts the nodes below
\* int(md5(k))
RingTable ==
    <<
       <<"B",10>>, <<"C",16>>, <<"B",6>>, <<"C",17>>, <<"B",19>>, <<"B",24>>,
       <<"A",20>>, <<"B",12>>, <<"C",23>>, <<"B",4>>, <<"A",16>>, <<"B",20>>,
       <<"C",25>>, <<"C",28>>, <<"B",17>>, <<"A",5>>, <<"B",23>>, <<"C",6>>,
       <<"C",19>>, <<"B",13>>, <<"C",22>>, <<"C",15>>, <<"C",4>>, <<"C",10>>,
       <<"A",28>>, <<"C",18>>, <<"B",21>>, <<"C",12>>, <<"B",15>>, <<"B",8>>,
       <<"B",16>>, <<"B",18>>, <<"A",11>>, <<"B",2>>, <<"B",25>>, <<"A",26>>,
       <<"A",22>>, <<"A",24>>, <<"C",9>>, <<"B",27>>, <<"A",21>>, <<"A",15>>,
       <<"B",22>>, <<"A",8>>, <<"A",4>>, <<"B",0>>, <<"C",29>>, <<"B",26>>,
       <<"A",29>>, <<"C",11>>, <<"C",27>>, <<"C",3>>, <<"A",23>>, <<"C",1>>,
       <<"A",13>>, <<"A",6>>, <<"A",1>>, <<"C",20>>, <<"B",14>>, <<"C",26>>,
       <<"A",19>>, <<"A",17>>, <<"B",3>>, <<"B",1>>, <<"C",8>>, <<"A",2>>,
       <<"A",7>>, <<"A",25>>, <<"A",9>>, <<"A",14>>, <<"C",5>>, <<"A",12>>,
       <<"A",27>>, <<"B",7>>, <<"C",2>>, <<"B",28>>, <<"B",9>>, <<"B",29>>,
       <<"C",21>>, <<"B",5>>, <<"C",24>>, <<"B",11>>, <<"C",14>>, <<"A",10>>,
       <<"C",0>>, <<"C",13>>, <<"A",3>>, <<"A",18>>, <<"A",0>>, <<"C",7>> >>

KeyPos(k) ==
    CASE k = "default" -> 71
      [] k = "req-83" -> 0
      [] k = "req-45" -> 32
      [] k = "req-0" -> 62
      [] k = "req-41" -> 89

\* request_hash values given to select_backend
HashKeys == {"default", "req-83", "req-45", "req-0", "req-41"}

\* _build_hash_ring: the positions of RingTable that are in _hash_ring
HashRing ==
    {i \in 1..Len(RingTable) :
        /\ RingTable[i][1] \in DOMAIN backends
        /\ backends[RingTable[i][1]] # NoCfg
        /\ RingTable[i][2] < backends[RingTable[i][1]].weight * RingNodesPerWeight}

SetMin(S) == CHOOSE x \in S : \A y \in S : x <= y

\* a hash taken modulo the number of available backends, in place of the ring
modulo_hash_select(key) ==
    LET avail == GetAvailableBackends
    IN  IF HashRing = {} \/ avail = <<>> THEN {Outcome(NoName, rrIndex, FALSE)}
        ELSE {Outcome(avail[(KeyPos(key) % Len(avail)) + 1], rrIndex, FALSE)}

consistent_hash_select(key) ==
    LET ring == HashRing
        healthyAt(i) == metrics[RingTable[i][1]].status = "healthy"
        after == {i \in ring : i > KeyPos(key) /\ healthyAt(i)}
    IN  IF ring = {} THEN {Outcome(NoName, rrIndex, FALSE)}
        ELSE IF after # {}
             THEN {Outcome(RingTable[SetMin(after)][1], rrIndex, FALSE)}
        ELSE IF healthyAt(SetMin(ring))
             THEN {Outcome(RingTable[SetMin(ring)][1], rrIndex, FALSE)}
        ELSE {Outcome(NoName, rrIndex, FALSE)}

\* the first name of the list with the smallest positive mean; the head of
\* the list when no name has a sample
response_time_select(avail) ==
    IF \E b \in Range(avail) : ~Registered(b)
    THEN {Outcome(NoName, rrIndex, TRUE)}
    ELSE LET cand == {i \in 1..Len(avail) : AvgPositive(metrics[avail[i]])}
             best == {i \in cand : \A j \in cand :
                         ~AvgLess(metrics[avail[j]], metrics[avail[i]])}
         IN  IF cand = {} THEN {Outcome(avail[1], rrIndex, FALSE)}
             ELSE {Outcome(avail[SetMin(best)], rrIndex, FALSE)}

StrategySelect(avail, key) ==
    CASE strategy = "round_robin" -> round_robin_select(avail)
      [] strategy = "weighted_round_robin" -> weighted_round_robin_select(avail)
      [] strategy = "least_connections" -> least_connections_select(avail)
      [] strategy = "random" -> random_select(avail)
      [] strategy = "consistent_hash" -> consistent_hash_select(key)
      [] strategy = "response_time" -> response_time_select(avail)

\* the locked block of select_backend: the policy's pick, then the increment
\* of the picked backend's active_connections (a KeyError when the name left
\* the metrics dict since the list was taken)
SelectOutcomes(avail, key) ==
    {IF ~o.err /\ o.backend # NoName /\ ~Registered(o.backend)
     THEN [o EXCEPT !.err = TRUE] ELSE o : o \in StrategySelect(avail, key)}

IncrementActive(m) ==
    [m EXCEPT !.active_connections = @ + 1]

\* select_backend(key) as one call that nothing interleaves: the outcomes of
\* the list and the locked block together
select_backend(key) ==
    LET avail == GetAvailableBackends
    IN  IF avail = <<>> THEN {Outcome(NoName, rrIndex, FALSE)}
        ELSE SelectOutcomes(avail, key)

\* select_backend(key) called by a request whose connection is then held:
\* the cursor the policy leaves and the increment for the backend it returns
SelectCall(key) ==
    /\ SumSeq([i \in 1..Len(mOrder) |->
                  metrics[mOrder[i]].active_connections]) < MaxPicks
    /\ \E o \in select_backend(key) :
         /\ ~o.err
         /\ rrIndex' = o.rr
         /\ metrics' = IF o.backend = NoName THEN metrics
                       ELSE [metrics EXCEPT ![o.backend] = IncrementActive(@)]
    /\ UNCHANGED <<backends, mOrder, clients, strategy, req, admin, probe,
                   nOps, authVars, routeVars, restVars>>

\* ------------------------------------------------- process_audio (threads)
\* One record per worker thread.  Steps that touch only the thread's own
\* locals are taken together with the next read of shared state: the entry of
\* process_audio with the first list of available backends, and the return of
\* the upstream call with the membership test of record_request_result.
\* elapsed: the time the request has spent in upstream calls that ran into
\* the timeout of their client, in units of TimeoutTicks
IdleReq ==
    [pc |-> "idle", attempt |-> 0, avail |-> <<>>, backend |-> NoName,
     ok |-> FALSE, dur |-> 0, error |-> "None", result |-> "-", elapsed |-> 0]

\* a return statement of process_audio; the returned dict names the backend
\* and the error only for a success and for the exhausted retries
Return(t, res) ==
    [t EXCEPT !.pc = "done", !.result = res, !.avail = <<>>, !.dur = 0,
              !.ok = FALSE, !.attempt = 0,
              !.backend = IF res \in {"success", "all_failed"} THEN @ ELSE NoName,
              !.error = IF res = "all_failed" THEN @ ELSE "None"]

\* select_backend, before the lock: the list of available backends; the call
\* returns None, and process_audio "no backend", when the list is empty
TakeList(t) ==
    LET avail == GetAvailableBackends
    IN  IF avail = <<>> THEN Return(t, "no_backend")
        ELSE [t EXCEPT !.pc = "pick", !.avail = avail]

\* process_audio up to its first select_backend: the audio file is encoded,
\* or the call returns the encoding error
Start(r, encoded) ==
    /\ req[r].pc = "idle"
    /\ req' = [req EXCEPT ![r] =
                 IF encoded THEN TakeList(@) ELSE Return(@, "encode_error")]
    /\ UNCHANGED <<backends, metrics, mOrder, clients, strategy, rrIndex,
                   admin, probe, nOps, authVars, routeVars, restVars>>

\* the next iteration of "for attempt in range(max_retries + 1)"
SelectList(r) ==
    /\ req[r].pc = "select"
    /\ req' = [req EXCEPT ![r] = TakeList(@)]
    /\ UNCHANGED <<backends, metrics, mOrder, clients, strategy, rrIndex,
                   admin, probe, nOps, authVars, routeVars, restVars>>

\* the end of an iteration that did not return: the next attempt, or the
\* fall-through return after the loop
NextAttempt(t) ==
    IF t.attempt + 1 > MaxRetries THEN Return(t, "failed")
    ELSE [t EXCEPT !.pc = "select", !.attempt = @ + 1, !.avail = <<>>,
                   !.backend = NoName, !.ok = FALSE, !.dur = 0, !.error = "None"]

\* select_backend, under the lock: the pick and the increment
SelectLocked(r) ==
    /\ req[r].pc = "pick"
    /\ \E o \in SelectOutcomes(req[r].avail, "default") :
         /\ rrIndex' = o.rr
         /\ IF o.err
            THEN /\ req' = [req EXCEPT ![r] = Return(@, "exception")]
                 /\ UNCHANGED metrics
            ELSE IF o.backend = NoName
            THEN /\ req' = [req EXCEPT ![r] = Return(@, "no_backend")]
                 /\ UNCHANGED metrics
            ELSE /\ metrics' = [metrics EXCEPT ![o.backend] = IncrementActive(@)]
                 /\ req' = [req EXCEPT ![r] =
                              [@ EXCEPT !.pc = "resolve", !.backend = o.backend,
                                        !.avail = <<>>]]
    /\ UNCHANGED <<backends, mOrder, clients, strategy, admin, probe, nOps,
                   authVars, routeVars, restVars>>

\* get_backend_config and _clients.get: "continue" when either is missing
Resolve(r) ==
    /\ req[r].pc = "resolve"
    /\ req' = [req EXCEPT ![r] =
                 IF backends[@.backend] # NoCfg /\ @.backend \in clients
                 THEN [@ EXCEPT !.pc = "call"]
                 ELSE NextAttempt(@)]
    /\ UNCHANGED <<backends, metrics, mOrder, clients, strategy, rrIndex,
                   admin, probe, nOps, authVars, routeVars, restVars>>

\* record_request_result, before the lock: "if backend_name not in metrics"
RecordCheck(t) ==
    IF Registered(t.backend) THEN [t EXCEPT !.pc = "record_upd"]
    ELSE [t EXCEPT !.pc = "release_chk"]

\* _make_request returns a result, or raises (the upstream call raised, or
\* the reply held no choice); record_request_result is entered.  The text
\* of the exception is not represented: error is "set"
CallReturn(r, outcome, d) ==
    /\ req[r].pc = "call"
    /\ req' = [req EXCEPT ![r] =
                 IF outcome = "success"
                 THEN RecordCheck([@ EXCEPT !.ok = TRUE, !.dur = d])
                 ELSE RecordCheck([@ EXCEPT !.ok = FALSE, !.error = "set"])]
    /\ UNCHANGED <<backends, metrics, mOrder, clients, strategy, rrIndex,
                   admin, probe, nOps, authVars, routeVars, restVars>>

\* the upstream call runs into the timeout of the backend's client
\* (OpenAI(timeout=backend.timeout)): the client aborts the call and raises,
\* and the except block is entered like for any exception
CallTimeout(r) ==
    /\ req[r].pc = "call"
    /\ req' = [req EXCEPT ![r] =
                 RecordCheck([@ EXCEPT !.ok = FALSE, !.error = "set",
                                       !.elapsed = @ + TimeoutTicks])]
    /\ UNCHANGED <<backends, metrics, mOrder, clients, strategy, rrIndex,
                   admin, probe, nOps, authVars, routeVars, restVars>>

\* a KeyError raised by record_request_result or release_connection: inside
\* the try block it is caught and the attempt handled as failed (the except
\* block calls record_request_result), inside the except block it leaves
\* process_audio
KeyErrorIn(t) ==
    IF t.ok THEN RecordCheck([t EXCEPT !.ok = FALSE, !.dur = 0, !.error = "set"])
    ELSE Return(t, "exception")

RecordResult(m, success, d) ==
    IF success
    THEN update_response_time(
             [m EXCEPT !.total_requests = @ + 1, !.successful_requests = @ + 1], d)
    ELSE [m EXCEPT !.total_requests = @ + 1, !.failed_requests = @ + 1,
                   !.last_error = "set"]

\* record_request_result, under the lock
RecordLocked(r) ==
    /\ req[r].pc = "record_upd"
    /\ LET t == req[r]
       IN  IF Registered(t.backend)
           THEN /\ metrics' = [metrics EXCEPT ![t.backend] =
                                 RecordResult(@, t.ok, t.dur)]
                /\ req' = [req EXCEPT ![r].pc = "release_chk"]
           ELSE /\ req' = [req EXCEPT ![r] = KeyErrorIn(t)]
                /\ UNCHANGED metrics
    /\ UNCHANGED <<backends, mOrder, clients, strategy, rrIndex, admin,
                   probe, nOps, authVars, routeVars, restVars>>

\* what follows release_connection in the attempt: the result is returned, or
\* the last failed attempt returns the error, or the next attempt starts
AfterRelease(t) ==
    IF t.ok THEN Return(t, "success")
    ELSE IF t.attempt = MaxRetries THEN Return(t, "all_failed")
    ELSE NextAttempt(t)

\* release_connection, before the lock: "if backend_name in self.metrics"
ReleaseCheck(r) ==
    /\ req[r].pc = "release_chk"
    /\ req' = [req EXCEPT ![r] =
                 IF Registered(@.backend) THEN [@ EXCEPT !.pc = "release_upd"]
                 ELSE AfterRelease(@)]
    /\ UNCHANGED <<backends, metrics, mOrder, clients, strategy, rrIndex,
                   admin, probe, nOps, authVars, routeVars, restVars>>

\* release_connection without its "> 0" test
ReleaseUnguarded(m) == [m EXCEPT !.active_connections = @ - 1]

Release(m) ==
    IF m.active_connections > 0
    THEN [m EXCEPT !.active_connections = @ - 1] ELSE m

\* release_connection, under the lock
ReleaseLocked(r) ==
    /\ req[r].pc = "release_upd"
    /\ LET t == req[r]
       IN  IF Registered(t.backend)
           THEN /\ metrics' = [metrics EXCEPT ![t.backend] = Release(@)]
                /\ req' = [req EXCEPT ![r] = AfterRelease(t)]
           ELSE /\ req' = [req EXCEPT ![r] = KeyErrorIn(t)]
                /\ UNCHANGED metrics
    /\ UNCHANGED <<backends, mOrder, clients, strategy, rrIndex, admin,
                   probe, nOps, authVars, routeVars, restVars>>

\* ------------------------------------------ operator routes and the prober
NoAdmin == [op |-> "none", name |-> NoName]
IdleProbe == [name |-> NoName, orphan |-> FALSE]

RECURSIVE Without(_, _)
Without(order, b) ==
    IF order = <<>> THEN <<>>
    ELSE IF Head(order) = b THEN Without(Tail(order), b)
    ELSE <<Head(order)>> \o Without(Tail(order), b)

\* a probe in flight holds the BackendMetrics object it read at its start;
\* once the dict entry is replaced or deleted its updates reach no entry
Orphan(b) ==
    [p \in DOMAIN probe |->
        IF probe[p].name = b THEN [probe[p] EXCEPT !.orphan = TRUE] ELSE probe[p]]

\* the weight the operator gives a backend of that name
ConfiguredWeight(b) == IF b = "A" THEN 1 ELSE MaxWeight

\* LLMLoadBalancer.add_backend (first half of the service's add_backend)
AddBackend(b) ==
    /\ admin = NoAdmin
    /\ nOps < MaxOps
    /\ nOps' = nOps + 1
    /\ backends' = [backends EXCEPT ![b] =
                       BackendConfig(ConfiguredWeight(b), MaxConnCfg)]
    /\ metrics' = [metrics EXCEPT ![b] = BackendMetrics]
    /\ mOrder' = IF Registered(b) THEN mOrder ELSE Append(mOrder, b)
    /\ probe' = Orphan(b)
    /\ admin' = [op |-> "add", name |-> b]
    /\ UNCHANGED <<clients, strategy, rrIndex, req, authVars, routeVars, restVars>>

\* second half: self._clients[name] = self._create_client(backend)
AddClient ==
    /\ admin.op = "add"
    /\ clients' = clients \cup {admin.name}
    /\ admin' = NoAdmin
    /\ UNCHANGED <<backends, metrics, mOrder, strategy, rrIndex, req, probe,
                   nOps, authVars, routeVars, restVars>>

\* remove_backend without "del self.metrics[backend_name]"
RemoveBackendKeepsMetrics(b) ==
    /\ admin = NoAdmin
    /\ nOps < MaxOps
    /\ nOps' = nOps + 1
    /\ IF backends[b] # NoCfg
       THEN /\ backends' = [backends EXCEPT ![b] = NoCfg]
            /\ mOrder' = Without(mOrder, b)
            /\ probe' = Orphan(b)
            /\ UNCHANGED metrics
       ELSE UNCHANGED <<backends, metrics, mOrder, probe>>
    /\ admin' = [op |-> "remove", name |-> b]
    /\ UNCHANGED <<clients, strategy, rrIndex, req, authVars, routeVars, restVars>>

\* LLMLoadBalancer.remove_backend (first half of the service's remove_backend)
RemoveBackend(b) ==
    /\ admin = NoAdmin
    /\ nOps < MaxOps
    /\ nOps' = nOps + 1
    /\ IF backends[b] # NoCfg
       THEN /\ backends' = [backends EXCEPT ![b] = NoCfg]
            /\ metrics' = [metrics EXCEPT ![b] = NoMetrics]
            /\ mOrder' = Without(mOrder, b)
            /\ probe' = Orphan(b)
       ELSE UNCHANGED <<backends, metrics, mOrder, probe>>
    /\ admin' = [op |-> "remove", name |-> b]
    /\ UNCHANGED <<clients, strategy, rrIndex, req, authVars, routeVars, restVars>>

\* second half: del self._clients[backend_name]
RemoveClient ==
    /\ admin.op = "remove"
    /\ clients' = clients \ {admin.name}
    /\ admin' = NoAdmin
    /\ UNCHANGED <<backends, metrics, mOrder, strategy, rrIndex, req, probe,
                   nOps, authVars, routeVars, restVars>>

SetStatus(m, st) == [m EXCEPT !.status = st]

enable_backend(b) ==
    /\ admin = NoAdmin
    /\ nOps < MaxOps
    /\ nOps' = nOps + 1
    /\ Registered(b)
    /\ metrics' = [metrics EXCEPT ![b] = SetStatus(@, "healthy")]
    /\ UNCHANGED <<backends, mOrder, clients, strategy, rrIndex, req, admin,
                   probe, authVars, routeVars, restVars>>

disable_backend(b) ==
    /\ admin = NoAdmin
    /\ nOps < MaxOps
    /\ nOps' = nOps + 1
    /\ Registered(b)
    /\ metrics' = [metrics EXCEPT ![b] = SetStatus(@, "disabled")]
    /\ UNCHANGED <<backends, mOrder, clients, strategy, rrIndex, req, admin,
                   probe, authVars, routeVars, restVars>>

\* update_strategy with only the strategy given (the ring it rebuilds is the
\* ring of the unchanged backends)
UpdateStrategy(s) ==
    /\ admin = NoAdmin
    /\ nOps < MaxOps
    /\ nOps' = nOps + 1
    /\ s # strategy
    /\ strategy' = s
    /\ UNCHANGED <<backends, metrics, mOrder, clients, rrIndex, req, admin,
                   probe, authVars, routeVars, restVars>>

\* _check_backend_health up to its request (a tick of the loop, or the manual
\* route): the backend's config and metrics objects are read
ProbeStart(p, b) ==
    /\ admin = NoAdmin
    /\ probe[p] = IdleProbe
    /\ Registered(b)
    /\ nOps < MaxOps
    /\ nOps' = nOps + 1
    /\ probe' = [probe EXCEPT ![p] = [name |-> b, orphan |-> FALSE]]
    /\ UNCHANGED <<backends, metrics, mOrder, clients, strategy, rrIndex,
                   req, admin, authVars, routeVars, restVars>>

\* the success block without "consecutive_failures = 0"
ProbeSuccessKeepsCount(m, d) ==
    update_response_time([m EXCEPT !.status = "healthy"], d)

ProbeSuccess(m, d) ==
    update_response_time(
        [m EXCEPT !.status = "healthy", !.consecutive_failures = 0], d)

\* the except block with ">" in place of ">="
ProbeFailureLate(m) ==
    LET n == m.consecutive_failures + 1
    IN  [m EXCEPT !.consecutive_failures = n, !.last_error = "set",
                  !.status = IF n > FailureThreshold THEN "unhealthy" ELSE @]

ProbeFailure(m) ==
    LET n == m.consecutive_failures + 1
    IN  [m EXCEPT !.consecutive_failures = n, !.last_error = "set",
                  !.status = IF n >= FailureThreshold THEN "unhealthy" ELSE @]

\* the probe's reply is HTTP 200
ProbeOk(p, d) ==
    /\ admin = NoAdmin
    /\ probe[p] # IdleProbe
    /\ metrics' = IF probe[p].orphan THEN metrics
                  ELSE [metrics EXCEPT ![probe[p].name] = ProbeSuccess(@, d)]
    /\ probe' = [probe EXCEPT ![p] = IdleProbe]
    /\ UNCHANGED <<backends, mOrder, clients, strategy, rrIndex, req, admin,
                   nOps, authVars, routeVars, restVars>>

\* the probe's request raised, or the reply is not HTTP 200
ProbeFail(p) ==
    /\ admin = NoAdmin
    /\ probe[p] # IdleProbe
    /\ metrics' = IF probe[p].orphan THEN metrics
                  ELSE [metrics EXCEPT ![probe[p].name] = ProbeFailure(@)]
    /\ probe' = [probe EXCEPT ![p] = IdleProbe]
    /\ UNCHANGED <<backends, mOrder, clients, strategy, rrIndex, req, admin,
                   nOps, authVars, routeVars, restVars>>

\* ------------------------------------------ credentials: store and cache
\* Secrets are character strings; the cache sees only their first
\* KeyPrefixLen characters.  K1 and K2 are keys generate_api_key can return,
\* K1x is a string a caller presents that agrees with K1 on the prefix.
Pad(c, n) == [i \in 1..n |-> c]
K1 == Pad("a", KeyPrefixLen) \o <<"1">>
K1x == Pad("a", KeyPrefixLen) \o <<"2">>
K2 == Pad("b", KeyPrefixLen) \o <<"1">>
StoredKeys == {K1, K2}
Secrets == {K1, K1x, K2}
Procs == 1..NumProcs

NoRecord == [absent |-> TRUE]
NoEntry == [absent |-> TRUE]
NoRet == [op |-> "none"]

\* "api_key_auth:" + api_key[:16]; the fixed tag is left out
GetCacheKey(api_key) ==
    SubSeq(api_key, 1, IF Len(api_key) < KeyPrefixLen THEN Len(api_key)
                       ELSE KeyPrefixLen)

CacheKeys == {GetCacheKey(k) : k \in Secrets}

\* a row of api_keys; expires_at is "None", or a time that is still ahead of
\* utcnow() ("later"), equal to it ("now") or already behind it ("passed")
APIKey(name, exp, adm) ==
    [name |-> name, is_active |-> TRUE, expires_at |-> exp, usage_count |-> 0,
     is_admin |-> adm]

\* the names a caller passes to generate_api_key: none (None or the empty
\* string, which "name or ..." treats alike) or a name of its own
NoKeyName == <<>>
KeyNames == {NoKeyName, <<"n">>, <<"m">>}

\* every record is named after its own key
key_name_default(name, api_key) ==
    <<"k", "e", "y", "_">> \o SubSeq(api_key, 1, 8)

\* name or f"key_{api_key[:8]}"
key_name(name, api_key) ==
    IF name = NoKeyName THEN <<"k", "e", "y", "_">> \o SubSeq(api_key, 1, 8)
    ELSE name

\* list_api_keys: the rows returned, each without its secret (the row id
\* stands for the record)
list_api_keys(st, include_inactive) ==
    {[id |-> k, name |-> st[k].name, is_active |-> st[k].is_active,
      is_admin |-> st[k].is_admin] :
        k \in {s \in Secrets : /\ st[s] # NoRecord
                               /\ (include_inactive \/ st[s].is_active)}}

\* utcnow() > expires_at
is_expired(rec) == rec.expires_at = "passed"
is_valid(rec) == rec.is_active /\ ~is_expired(rec)

\* the value setex stores under a cache key, with the time it has left
CacheEntry(valid, adm) ==
    [is_valid |-> valid, is_admin |-> adm, ttl |-> CacheTtl]

\* get_api_key_auth without its "if not self.enabled" test
get_api_key_auth_unguarded(c, api_key, redisOk) ==
    IF ~redisOk THEN NoEntry ELSE c[GetCacheKey(api_key)]

\* RedisCache.get_api_key_auth: None when the cache is off, the command
\* fails or there is no entry
get_api_key_auth(c, api_key, redisOk) ==
    IF ~cacheEnabled \/ ~redisOk THEN NoEntry ELSE c[GetCacheKey(api_key)]

\* set_api_key_auth without its "if not is_valid" test
set_api_key_auth_any(c, api_key, valid, adm, redisOk) ==
    IF ~cacheEnabled \/ ~redisOk THEN c
    ELSE [c EXCEPT ![GetCacheKey(api_key)] = CacheEntry(valid, adm)]

\* RedisCache.set_api_key_auth: the cache after the call
set_api_key_auth(c, api_key, valid, adm, redisOk) ==
    IF ~cacheEnabled THEN c
    ELSE IF ~valid THEN c
    ELSE IF ~redisOk THEN c
    ELSE [c EXCEPT ![GetCacheKey(api_key)] = CacheEntry(valid, adm)]

\* RedisCache.invalidate_api_key: the cache after the call
invalidate_api_key(c, api_key, redisOk) ==
    IF ~cacheEnabled \/ ~redisOk THEN c
    ELSE [c EXCEPT ![GetCacheKey(api_key)] = NoEntry]

\* One record per process that calls AuthService (the server, the key
\* management command): the call in progress, its locals, its last result.
IdleProc ==
    [pc |-> "idle", op |-> "none", key |-> <<>>, usage |-> 0, adm |-> FALSE,
     ret |-> NoRet]

Returns(pr, ok, adm) ==
    [pc |-> "idle", op |-> "none", key |-> <<>>, usage |-> 0, adm |-> FALSE,
     ret |-> [op |-> pr.op, key |-> pr.key, ok |-> ok, is_admin |-> adm]]

Call(op, k) == [IdleProc EXCEPT !.op = op, !.key = k]

\* process p is free to make a call; the processes are numbered in the order
\* of their first call
CanCall(p) ==
    /\ proc[p].pc = "idle"
    /\ \A q \in 1..(p - 1) : proc[q] # IdleProc
    /\ nCalls < MaxCalls

\* verify_api_key up to the end of the cache probe: the caller's record
VerifyEntry(k, redisOk) ==
    LET cached == get_api_key_auth(cache, k, redisOk)
        me == Call("verify", k)
    IN  IF ~authEnabled THEN Returns(me, TRUE, FALSE)
        ELSE IF cached # NoEntry /\ cached.is_valid
        THEN [me EXCEPT !.pc = "stats_read", !.adm = cached.is_admin]
        ELSE [me EXCEPT !.pc = "db_read"]

VerifyStart(p, k, redisOk) ==
    /\ CanCall(p)
    /\ nCalls' = nCalls + 1
    /\ proc' = [proc EXCEPT ![p] = VerifyEntry(k, redisOk)]
    /\ UNCHANGED <<authEnabled, cacheEnabled, store, cache, lbVars, routeVars, restVars>>

\* _async_update_usage_stats: the query
StatsRead(p) ==
    /\ proc[p].pc = "stats_read"
    /\ LET rec == store[proc[p].key]
       IN  proc' = [proc EXCEPT ![p] =
                      IF rec = NoRecord THEN Returns(@, TRUE, @.adm)
                      ELSE [@ EXCEPT !.pc = "stats_commit",
                                     !.usage = rec.usage_count]]
    /\ UNCHANGED <<authEnabled, cacheEnabled, store, cache, nCalls, lbVars, routeVars, restVars>>

\* _async_update_usage_stats: usage_count += 1 and the commit; verify_api_key
\* returns the cached flags
StatsCommit(p) ==
    /\ proc[p].pc = "stats_commit"
    /\ store' = [store EXCEPT ![proc[p].key].usage_count = proc[p].usage + 1]
    /\ proc' = [proc EXCEPT ![p] = Returns(@, TRUE, @.adm)]
    /\ UNCHANGED <<authEnabled, cacheEnabled, cache, nCalls, lbVars, routeVars, restVars>>

\* _verify_api_key_from_db: the query and the validity test
DbRead(p) ==
    /\ proc[p].pc = "db_read"
    /\ LET rec == store[proc[p].key]
       IN  proc' = [proc EXCEPT ![p] =
                      IF rec = NoRecord THEN Returns(@, FALSE, FALSE)
                      ELSE IF ~is_valid(rec) THEN Returns(@, FALSE, rec.is_admin)
                      ELSE [@ EXCEPT !.pc = "db_commit", !.adm = rec.is_admin,
                                     !.usage = rec.usage_count]]
    /\ UNCHANGED <<authEnabled, cacheEnabled, store, cache, nCalls, lbVars, routeVars, restVars>>

\* _verify_api_key_from_db: usage_count += 1 and the commit
DbCommit(p) ==
    /\ proc[p].pc = "db_commit"
    /\ store' = [store EXCEPT ![proc[p].key].usage_count = proc[p].usage + 1]
    /\ proc' = [proc EXCEPT ![p].pc = "cache_set"]
    /\ UNCHANGED <<authEnabled, cacheEnabled, cache, nCalls, lbVars, routeVars, restVars>>

\* _verify_api_key_from_db: the result is cached and returned
CacheSet(p, redisOk) ==
    /\ proc[p].pc = "cache_set"
    /\ cache' = set_api_key_auth(cache, proc[p].key, TRUE, proc[p].adm, redisOk)
    /\ proc' = [proc EXCEPT ![p] = Returns(@, TRUE, @.adm)]
    /\ UNCHANGED <<authEnabled, cacheEnabled, store, nCalls, lbVars, routeVars, restVars>>

\* revoke_api_key reporting a record that is already inactive as a failure
RevokeCommitOnce(p, k) ==
    /\ CanCall(p)
    /\ nCalls' = nCalls + 1
    /\ IF store[k] = NoRecord \/ ~store[k].is_active
       THEN /\ proc' = [proc EXCEPT ![p] = Returns(Call("revoke", k), FALSE, FALSE)]
            /\ UNCHANGED store
       ELSE /\ store' = [store EXCEPT ![k].is_active = FALSE]
            /\ proc' = [proc EXCEPT ![p] = [Call("revoke", k) EXCEPT !.pc = "invalidate"]]
    /\ UNCHANGED <<authEnabled, cacheEnabled, cache, lbVars, routeVars, restVars>>

\* revoke_api_key: the query, is_active = False and the commit
RevokeCommit(p, k) ==
    /\ CanCall(p)
    /\ nCalls' = nCalls + 1
    /\ IF store[k] = NoRecord
       THEN /\ proc' = [proc EXCEPT ![p] = Returns(Call("revoke", k), FALSE, FALSE)]
            /\ UNCHANGED store
       ELSE /\ store' = [store EXCEPT ![k].is_active = FALSE]
            /\ proc' = [proc EXCEPT ![p] = [Call("revoke", k) EXCEPT !.pc = "invalidate"]]
    /\ UNCHANGED <<authEnabled, cacheEnabled, cache, lbVars, routeVars, restVars>>

\* revoke_api_key: invalidate_api_key, whose result is dropped, and return True
RevokeInvalidate(p, redisOk) ==
    /\ proc[p].pc = "invalidate"
    /\ cache' = invalidate_api_key(cache, proc[p].key, redisOk)
    /\ proc' = [proc EXCEPT ![p] = Returns(@, TRUE, FALSE)]
    /\ UNCHANGED <<authEnabled, cacheEnabled, store, nCalls, lbVars, routeVars, restVars>>

\* set_admin_status
SetAdminStatus(p, k, adm) ==
    /\ CanCall(p)
    /\ nCalls' = nCalls + 1
    /\ IF store[k] = NoRecord
       THEN /\ proc' = [proc EXCEPT ![p] =
                          Returns(Call("set_admin", k), FALSE, adm)]
            /\ UNCHANGED store
       ELSE /\ store' = [store EXCEPT ![k].is_admin = adm]
            /\ proc' = [proc EXCEPT ![p] =
                          Returns(Call("set_admin", k), TRUE, adm)]
    /\ UNCHANGED <<authEnabled, cacheEnabled, cache, lbVars, routeVars, restVars>>

\* generate_api_key: a fresh token (the commit fails on a secret the unique
\* column holds already), with or without expires_in_days
GenerateApiKey(p, k, name, exp, adm) ==
    /\ CanCall(p)
    /\ nCalls' = nCalls + 1
    /\ store[k] = NoRecord
    /\ store' = [store EXCEPT ![k] = APIKey(key_name(name, k), exp, adm)]
    /\ proc' = [proc EXCEPT ![p] = Returns(Call("generate", k), TRUE, adm)]
    /\ UNCHANGED <<authEnabled, cacheEnabled, cache, lbVars, routeVars, restVars>>

\* utcnow() reaches a record's expires_at, then passes it
PassExpiry(k) ==
    /\ store[k] # NoRecord
    /\ store[k].expires_at \in {"later", "now"}
    /\ store' = [store EXCEPT ![k].expires_at =
                     IF @ = "later" THEN "now" ELSE "passed"]
    /\ UNCHANGED <<authEnabled, cacheEnabled, cache, proc, nCalls, lbVars, routeVars, restVars>>

\* an entry written by setex reaches api_key_cache_ttl
CacheExpire(ck) ==
    /\ cache[ck] # NoEntry
    /\ cache' = [cache EXCEPT ![ck] = NoEntry]
    /\ UNCHANGED <<authEnabled, cacheEnabled, store, proc, nCalls, lbVars, routeVars, restVars>>

\* cleanup_expired_keys: every active record whose expires_at is behind
\* utcnow() is set inactive; the cache is not touched
CleanupExpiredKeys(p) ==
    /\ CanCall(p)
    /\ nCalls' = nCalls + 1
    /\ store' = [k \in Secrets |->
                   IF store[k] # NoRecord /\ store[k].is_active
                      /\ store[k].expires_at = "passed"
                   THEN [store[k] EXCEPT !.is_active = FALSE]
                   ELSE store[k]]
    /\ proc' = [proc EXCEPT ![p] =
                  Returns(Call("cleanup", <<>>), TRUE, FALSE)]
    /\ UNCHANGED <<authEnabled, cacheEnabled, cache, lbVars, routeVars,
                   restVars>>

\* a unit of time passes: Redis counts down the time to live of every entry
\* and drops the entries that reach 0; invalidFor[k] is the time for which
\* the record of k has been invalid (revoked, expired or cleaned up), counted
\* up to CacheTtl + 1
Tick ==
    /\ cache' = [ck \in CacheKeys |->
                   IF cache[ck] = NoEntry THEN NoEntry
                   ELSE IF cache[ck].ttl <= 1 THEN NoEntry
                   ELSE [cache[ck] EXCEPT !.ttl = @ - 1]]
    /\ invalidFor' = [k \in Secrets |->
                        IF store[k] = NoRecord \/ is_valid(store[k]) THEN 0
                        ELSE IF invalidFor[k] > CacheTtl THEN invalidFor[k]
                        ELSE invalidFor[k] + 1]
    /\ UNCHANGED <<authEnabled, cacheEnabled, store, proc, nCalls, lbVars,
                   routeVars, convVars, loopVars, parseVars>>

\* ------------------------------------- start / stop of the health-check loop
\* the operator calls of a run and the loops they may create
Callers == 1 .. NumCallers

\* a task made by asyncio.create_task(self._health_check_loop()): where its
\* coroutine stands, whether cancel() was requested, and whether its last
\* round ended in the "except Exception" branch
NewLoop == [pc |-> "sleeping", cancelled |-> FALSE, logged |-> FALSE]

\* Task.done()
done(i) == loops[i].pc = "done"

CanCallHc(c) == waiter[c] = 0 /\ Len(hcCalls) < MaxHcCalls

\* the test of start_health_check taken as always true
TaskNoneOrDoneAny == TRUE

\* "self._health_check_task is None or self._health_check_task.done()"
TaskNoneOrDone == hcTask = 0 \/ done(hcTask)

\* start_health_check: one step of the event loop, it awaits nothing
StartHealthCheck(c) ==
    /\ CanCallHc(c)
    /\ hcCalls' = Append(hcCalls, "start")
    /\ IF TaskNoneOrDone
       THEN /\ loops' = Append(loops, NewLoop)
            /\ hcTask' = Len(loops) + 1
       ELSE UNCHANGED <<hcTask, loops>>
    /\ UNCHANGED <<waiter, lbVars, authVars, routeVars, convVars, invalidFor,
                   parseVars>>

\* stop_health_check up to its await: cancel() the task that is not done and
\* wait for it; with no such task the call returns at once
StopHealthCheck(c) ==
    /\ CanCallHc(c)
    /\ hcCalls' = Append(hcCalls, "stop")
    /\ IF hcTask # 0 /\ ~done(hcTask)
       THEN /\ loops' = [loops EXCEPT ![hcTask].cancelled = TRUE]
            /\ waiter' = [waiter EXCEPT ![c] = hcTask]
       ELSE UNCHANGED <<loops, waiter>>
    /\ UNCHANGED <<hcTask, lbVars, authVars, routeVars, convVars, invalidFor,
                   parseVars>>

\* "await self._health_check_task" returns once the task is done
StopReturn(c) ==
    /\ waiter[c] # 0
    /\ done(waiter[c])
    /\ waiter' = [waiter EXCEPT ![c] = 0]
    /\ UNCHANGED <<hcTask, loops, hcCalls, lbVars, authVars, routeVars,
                   convVars, invalidFor, parseVars>>

\* _health_check_loop: asyncio.sleep(health_check_interval) is over
LoopWake(i) ==
    /\ i \in DOMAIN loops
    /\ loops[i].pc = "sleeping"
    /\ ~loops[i].cancelled
    /\ loops' = [loops EXCEPT ![i].pc = "probing"]
    /\ UNCHANGED <<hcTask, waiter, hcCalls, lbVars, authVars, routeVars,
                   convVars, invalidFor, parseVars>>

\* _health_check_loop: _check_all_backends returns or raises; "except
\* Exception" logs the error and the while loop goes on
LoopRound(i, raises) ==
    /\ i \in DOMAIN loops
    /\ loops[i].pc = "probing"
    /\ ~loops[i].cancelled
    /\ loops' = [loops EXCEPT ![i].pc = "sleeping", ![i].logged = raises]
    /\ UNCHANGED <<hcTask, waiter, hcCalls, lbVars, authVars, routeVars,
                   convVars, invalidFor, parseVars>>

\* _health_check_loop: the CancelledError of a cancel() arrives at the await
\* the task stands at; "except asyncio.CancelledError: break"
LoopCancelled(i) ==
    /\ i \in DOMAIN loops
    /\ ~done(i)
    /\ loops[i].cancelled
    /\ loops' = [loops EXCEPT ![i].pc = "done"]
    /\ UNCHANGED <<hcTask, waiter, hcCalls, lbVars, authVars, routeVars,
                   convVars, invalidFor, parseVars>>

\* ------------------------------------------- translate_audio (the route)
\* One record per request slot of the server.  The dependency
\* get_current_api_key runs AuthService.verify_api_key in the server process
\* (process 1) without an await; process_and_convert_audio saves the upload
\* and awaits the transcode in an executor thread; process_audio runs in a
\* worker thread (req[h]); the finally block removes the files.  A removal
\* that the file system refuses is not represented.
Handlers == 1..NumHandlers
ServerProc == 1
Uploads == {"invalid", "wav", "opus"}

\* what APIKeyHeader and HTTPBearer hand to the dependency: None for a
\* header that is missing or empty, else the string it carries
NoHeader == <<>>
Headers == Secrets \cup {NoHeader}

\* get_current_api_key looking at the bearer token first
PresentedBearerFirst(x_api_key, bearer) ==
    IF bearer # NoHeader THEN bearer ELSE x_api_key

\* the credential get_current_api_key looks at
Presented(x_api_key, bearer) ==
    IF x_api_key # NoHeader THEN x_api_key ELSE bearer

IdleHandler ==
    [pc |-> "idle", id |-> 0, x_api_key |-> NoHeader, bearer |-> NoHeader,
     key |-> NoHeader, usage0 |-> 0, upload |-> "-",
     conv |-> "-", wav |-> "None", original |-> "None", result |-> "-"]

\* the usage_count of the record of api_key, 0 when there is none
UsageOf(api_key) ==
    IF api_key \notin Secrets THEN 0
    ELSE IF store[api_key] = NoRecord THEN 0 ELSE store[api_key].usage_count

\* the files of request id of slot h
FilesOf(h, id) == {f \in files : f[1] = h /\ f[2] = id}

\* a handler leaves translate_audio with the response res
Leaves(hd, res) == [hd EXCEPT !.pc = "done", !.result = res, !.conv = "-"]

\* a request reaches the route with the headers x and b and an upload of
\* kind u
ArriveWith(h, x, b, u) ==
    /\ handler[h].pc \in {"idle", "done"}
    /\ \A g \in Handlers : handler[g].pc # "auth"
    /\ proc[ServerProc].pc = "idle"
    /\ req[h].pc \in {"idle", "done"}
    /\ nCalls < MaxCalls
    /\ handler' = [handler EXCEPT ![h] =
                     [IdleHandler EXCEPT !.pc = "auth", !.id = nCalls + 1,
                                         !.x_api_key = x, !.bearer = b,
                                         !.key = Presented(x, b),
                                         !.usage0 = UsageOf(Presented(x, b)),
                                         !.upload = u]]
    /\ proc' = [proc EXCEPT ![ServerProc] = IdleProc]
    /\ req' = [req EXCEPT ![h] = IdleReq]
    /\ UNCHANGED <<backends, metrics, mOrder, clients, strategy, rrIndex,
                   admin, probe, nOps, authEnabled, cacheEnabled, store,
                   cache, nCalls, files, restVars>>

\* a request that carries the credential k in X-API-Key
Arrive(h, k, u) == ArriveWith(h, k, NoHeader, u)

\* get_current_api_key: "auth_disabled" is returned when authentication is
\* off, HTTP 401 is raised when no header carries a credential, else
\* verify_api_key is entered with the credential
Authenticate(h, redisOk) ==
    /\ handler[h].pc = "auth"
    /\ proc[ServerProc] = IdleProc
    /\ IF ~authEnabled
       THEN /\ handler' = [handler EXCEPT ![h].pc = "save"]
            /\ nCalls' = nCalls + 1
            /\ UNCHANGED <<lbVars, authEnabled, cacheEnabled, store, cache,
                           proc, files, restVars>>
       ELSE IF handler[h].key = NoHeader
       THEN /\ handler' = [handler EXCEPT ![h] = Leaves(@, "unauthorized")]
            /\ nCalls' = nCalls + 1
            /\ UNCHANGED <<lbVars, authEnabled, cacheEnabled, store, cache,
                           proc, files, restVars>>
       ELSE VerifyStart(ServerProc, handler[h].key, redisOk)

\* get_current_api_key: the key is returned, or HTTP 401 is raised
AuthDone(h) ==
    /\ handler[h].pc = "auth"
    /\ proc[ServerProc].pc = "idle"
    /\ proc[ServerProc].ret # NoRet
    /\ handler' = [handler EXCEPT ![h] =
                     IF proc[ServerProc].ret.ok THEN [@ EXCEPT !.pc = "save"]
                     ELSE Leaves(@, "unauthorized")]
    /\ UNCHANGED <<lbVars, authVars, files, restVars>>

\* save_upload_file and needs_conversion: a ValueError for an upload that
\* fails validation, an IOError when the write fails (the file is removed),
\* else the original file exists and is either returned as the wav file or
\* handed to the transcoder
SaveUpload(h, saved) ==
    /\ handler[h].pc = "save"
    /\ LET hd == handler[h]
       IN  IF hd.upload = "invalid"
           THEN /\ handler' = [handler EXCEPT ![h] = Leaves(@, "bad_request")]
                /\ UNCHANGED files
           ELSE IF ~saved
           THEN /\ handler' = [handler EXCEPT ![h] = Leaves(@, "io_error")]
                /\ UNCHANGED files
           ELSE /\ files' = files \cup {<<h, hd.id, "original">>}
                /\ handler' = [handler EXCEPT ![h] =
                                 IF hd.upload = "wav"
                                 THEN [@ EXCEPT !.pc = "dispatch",
                                                !.wav = "original",
                                                !.original = "original"]
                                 ELSE [@ EXCEPT !.pc = "convert",
                                                !.conv = "queued"]]
    /\ UNCHANGED <<lbVars, authVars, restVars>>

\* convert_to_wav in the executor thread: mkstemp creates the output file
ConvertRun(h) ==
    /\ handler[h].pc = "convert"
    /\ handler[h].conv = "queued"
    /\ files' = files \cup {<<h, handler[h].id, "converted">>}
    /\ handler' = [handler EXCEPT ![h].conv = "running"]
    /\ UNCHANGED <<lbVars, authVars, restVars>>

\* convert_to_wav returns the output path, or removes the output and raises;
\* process_and_convert_audio then removes the original and raises IOError
ConvertReturn(h, converted) ==
    /\ handler[h].pc = "convert"
    /\ handler[h].conv = "running"
    /\ IF converted
       THEN /\ handler' = [handler EXCEPT ![h] =
                             [@ EXCEPT !.pc = "dispatch", !.conv = "-",
                                       !.wav = "converted",
                                       !.original = "original"]]
            /\ UNCHANGED files
       ELSE /\ handler' = [handler EXCEPT ![h] = Leaves(@, "io_error")]
            /\ files' = files \ FilesOf(h, handler[h].id)
    /\ UNCHANGED <<lbVars, authVars, restVars>>

\* cleanup_audio_files as the finally block calls it: nothing unless both
\* paths are set, else the wav file when it is not the original, then the
\* original
CleanupAudioFiles(fs, h, hd) ==
    IF hd.wav = "None" \/ hd.original = "None" THEN fs
    ELSE (IF hd.wav # hd.original THEN fs \ {<<h, hd.id, hd.wav>>} ELSE fs)
            \ {<<h, hd.id, hd.original>>}

\* the request's task is cancelled while it awaits: CancelledError passes
\* the except clauses (it is no Exception) and the finally block runs
Cancel(h) ==
    /\ handler[h].pc \in {"convert", "dispatch"}
    /\ files' = CleanupAudioFiles(files, h, handler[h])
    /\ handler' = [handler EXCEPT ![h] = Leaves(@, "cancelled")]
    /\ UNCHANGED <<lbVars, authVars, restVars>>

\* run_in_threadpool(process_audio, wav_file_path, ...): the worker starts
Dispatch(h, encoded) ==
    /\ handler[h].pc = "dispatch"
    /\ Start(h, encoded)

\* process_audio has returned or raised: the response, then the finally block
Finish(h) ==
    /\ handler[h].pc = "dispatch"
    /\ req[h].pc = "done"
    /\ files' = CleanupAudioFiles(files, h, handler[h])
    /\ handler' = [handler EXCEPT ![h] = Leaves(@, req[h].result)]
    /\ UNCHANGED <<lbVars, authVars, restVars>>

\* --------------------------------- the normalizer (audio_processor.py,
\* audio_converter.py)
\* One record per process_and_convert_audio call.  The coroutine saves the
\* upload and tests needs_conversion on the event loop, hands convert_to_wav
\* to the ThreadPoolExecutor of AsyncAudioConverter and resumes when the
\* future is done.  In the worker thread every statement that reads or writes
\* state shared between threads (the module global _concurrency_manager, the
\* semaphore, the counters under ConcurrencyManager.lock) is a step of its
\* own.  A file name is the sequence of its characters, a letter of the
\* extension standing for the whole extension; "u8" is a character outside
\* ASCII.  Sizes, a write that the file system refuses and the per-instance
\* counters (request_count, conversion_count) are not represented.
Jobs == 1..NumJobs

AllowedExtensions == {"wav", "opus", "mp3", "flac", "m4a", "aac", "ogg"}
SupportedInputFormats == {"opus", "ogg", "mp3", "flac", "m4a", "aac", "wav"}

NoPath == <<>>
NoContent == [container |-> "-"]

\* what an upload can hold: PCM in a RIFF container with its three
\* parameters, an opus stream, bytes no decoder accepts, or nothing
WavContent(rate, ch, width) ==
    [container |-> "wav", frame_rate |-> rate, channels |-> ch,
     sample_width |-> width]
OpusContent == [container |-> "opus"]
Undecodable == [container |-> "none"]
EmptyContent == [container |-> "empty"]

\* str.lower()
Lower(c) == IF c = "WAV" THEN "wav" ELSE IF c = "OPUS" THEN "opus" ELSE c

LastDot(s) ==
    IF \E i \in 1..Len(s) : s[i] = "."
    THEN CHOOSE i \in 1..Len(s) :
            s[i] = "." /\ \A k \in (i + 1)..Len(s) : s[k] # "."
    ELSE 0

\* filename.rsplit('.', 1)[1].lower(), for a name that holds a dot
RsplitExt(filename) ==
    [i \in 1..(Len(filename) - LastDot(filename)) |->
        Lower(filename[LastDot(filename) + i])]

\* AudioProcessor.is_allowed_file
is_allowed_file(filename) ==
    /\ LastDot(filename) # 0
    /\ RsplitExt(filename) \in {<<e>> : e \in AllowedExtensions}

IsAscii(c) == c # "u8"

RECURSIVE LStrip(_)
LStrip(s) ==
    IF s # <<>> /\ Head(s) \in {".", "_"} THEN LStrip(Tail(s)) ELSE s

RECURSIVE RStrip(_)
RStrip(s) ==
    IF s # <<>> /\ s[Len(s)] \in {".", "_"}
    THEN RStrip(SubSeq(s, 1, Len(s) - 1)) ELSE s

\* werkzeug.utils.secure_filename: the characters outside ASCII are dropped,
\* then dots and underscores are stripped from both ends
secure_filename(filename) ==
    RStrip(LStrip(SelectSeq(filename, IsAscii)))

\* the path mkstemp(suffix="_" + safe_filename, prefix="lingualink_upload_")
\* returns for call j
UploadPath(j, filename) ==
    <<"lingualink_upload_", ToString(j), "_">> \o secure_filename(filename)

\* the path mkstemp(suffix='.wav', prefix='lingualink_converted_') returns
ConvertedPath(j) ==
    <<"lingualink_converted_", ToString(j), ".", "wav">>

\* os.path.splitext(path)[1].lower().lstrip('.')
PathExt(path) ==
    IF LastDot(path) = 0 THEN <<>>
    ELSE [i \in 1..(Len(path) - LastDot(path)) |->
             Lower(path[LastDot(path) + i])]

\* AudioConverter.is_format_supported
is_format_supported(path) ==
    PathExt(path) \in {<<e>> : e \in SupportedInputFormats}

\* AudioConverter._is_wav_compatible: False when from_wav raises
is_wav_compatible(content) ==
    /\ content.container = "wav"
    /\ content.frame_rate = WavFrameRate
    /\ content.channels = WavChannels
    /\ content.sample_width = WavSampleWidth

\* AudioConverter.needs_conversion
needs_conversion(path, content) ==
    IF PathExt(path) # <<"wav">> THEN TRUE
    ELSE ~is_wav_compatible(content)

\* AudioSegment.from_file(path, format=...) can read the file: the opus
\* format is read as ogg with the opus codec, every other one as its own
\* container
Decodable(path, content) ==
    IF PathExt(path) = <<"opus">> THEN content.container = "opus"
    ELSE IF PathExt(path) = <<"wav">> THEN content.container = "wav"
    ELSE FALSE

IdleJob ==
    [pc |-> "idle", filename |-> <<>>, content |-> NoContent,
     original |-> NoPath, wav |-> NoPath, output |-> NoPath, mgr |-> 0,
     raised |-> "None", result |-> "-", runs |-> 0, input |-> NoPath,
     cleanup |-> "-"]

\* ConcurrencyManager.__init__
NewManager ==
    [semaphore |-> ConcurrencySlots, active_conversions |-> 0,
     total_conversions |-> 0]

\* the places of convert_to_wav, which a thread of the executor runs
WorkerPcs == {"manager", "create", "created", "acquire", "entered",
              "transcoding", "exit", "release"}

BusyWorkers == Cardinality({j \in Jobs : job[j].pc \in WorkerPcs})

\* process_and_convert_audio up to its await: save_upload_file raises
\* ValueError for a name that is not allowed or an empty upload, else the
\* original file is written; needs_conversion then either returns the
\* original path twice or submits convert_to_wav to the executor
Upload(j, filename, content) ==
    /\ job[j].pc = "idle"
    /\ IF ~is_allowed_file(filename) \/ content = EmptyContent
       THEN /\ job' = [job EXCEPT ![j] =
                         [@ EXCEPT !.pc = "done", !.filename = filename,
                                   !.content = content,
                                   !.result = "ValueError"]]
            /\ UNCHANGED disk
       ELSE LET path == UploadPath(j, filename)
            IN  /\ disk' = disk \cup {path}
                /\ job' = [job EXCEPT ![j] =
                             IF needs_conversion(path, content)
                             THEN [@ EXCEPT !.pc = "pending",
                                            !.filename = filename,
                                            !.content = content,
                                            !.original = path]
                             ELSE [@ EXCEPT !.pc = "returned",
                                            !.filename = filename,
                                            !.content = content,
                                            !.original = path,
                                            !.wav = path,
                                            !.result = "returned"]]
    /\ UNCHANGED <<lbVars, authVars, routeVars, cm, cmGlobal, loopVars,
                   invalidFor, parseVars>>

\* a thread of the executor takes the call: convert_to_wav up to the output
\* path (ValueError for a format that is not supported, the input path for a
\* file that needs no conversion, else mkstemp creates the output file)
WorkerTake(j) ==
    /\ job[j].pc = "pending"
    /\ BusyWorkers < ConverterWorkers
    /\ LET t == job[j]
       IN  IF t.original \notin disk
           THEN /\ job' = [job EXCEPT ![j] =
                             [@ EXCEPT !.pc = "resume", !.raised = "IOError"]]
                /\ UNCHANGED disk
           ELSE IF ~is_format_supported(t.original)
           THEN /\ job' = [job EXCEPT ![j] =
                             [@ EXCEPT !.pc = "resume",
                                       !.raised = "ValueError"]]
                /\ UNCHANGED disk
           ELSE IF ~needs_conversion(t.original, t.content)
                   /\ is_wav_compatible(t.content)
           THEN /\ job' = [job EXCEPT ![j] =
                             [@ EXCEPT !.pc = "resume", !.wav = t.original]]
                /\ UNCHANGED disk
           ELSE /\ job' = [job EXCEPT ![j] =
                             [@ EXCEPT !.pc = "manager",
                                       !.output = ConvertedPath(j)]]
                /\ disk' = disk \cup {ConvertedPath(j)}
    /\ UNCHANGED <<lbVars, authVars, routeVars, cm, cmGlobal, loopVars,
                   invalidFor, parseVars>>

\* _get_global_concurrency_manager: the test of the global
GetManager(j) ==
    /\ job[j].pc = "manager"
    /\ job' = [job EXCEPT ![j] =
                 IF cmGlobal = 0 THEN [@ EXCEPT !.pc = "create"]
                 ELSE [@ EXCEPT !.pc = "acquire", !.mgr = cmGlobal]]
    /\ UNCHANGED <<lbVars, authVars, routeVars, cm, cmGlobal, disk, loopVars,
                   invalidFor, parseVars>>

\* _get_global_concurrency_manager: a manager is made and stored in the
\* global by a thread that found it None
CreateManager(j) ==
    /\ job[j].pc = "create"
    /\ cm' = Append(cm, NewManager)
    /\ cmGlobal' = Len(cm) + 1
    /\ job' = [job EXCEPT ![j].pc = "created"]
    /\ UNCHANGED <<lbVars, authVars, routeVars, disk, loopVars, invalidFor,
                   parseVars>>

\* _get_global_concurrency_manager: the global is read again and returned
ReturnManager(j) ==
    /\ job[j].pc = "created"
    /\ job' = [job EXCEPT ![j] = [@ EXCEPT !.pc = "acquire",
                                           !.mgr = cmGlobal]]
    /\ UNCHANGED <<lbVars, authVars, routeVars, cm, cmGlobal, disk, loopVars,
                   invalidFor, parseVars>>

\* acquire_conversion_slot: semaphore.acquire() returns
Acquire(j) ==
    /\ job[j].pc = "acquire"
    /\ cm[job[j].mgr].semaphore > 0
    /\ cm' = [cm EXCEPT ![job[j].mgr].semaphore = @ - 1]
    /\ job' = [job EXCEPT ![j].pc = "entered"]
    /\ UNCHANGED <<lbVars, authVars, routeVars, cmGlobal, disk, loopVars,
                   invalidFor, parseVars>>

\* acquire_conversion_slot: the counters, under the lock
EnterSlot(j) ==
    /\ job[j].pc = "entered"
    /\ cm' = [cm EXCEPT ![job[j].mgr] =
                [@ EXCEPT !.active_conversions = @ + 1,
                          !.total_conversions = @ + 1]]
    /\ job' = [job EXCEPT ![j].pc = "transcoding"]
    /\ UNCHANGED <<lbVars, authVars, routeVars, cmGlobal, disk, loopVars,
                   invalidFor, parseVars>>

\* the body of the with block: the transcoder reads the input and writes the
\* output, or an exception removes the output and IOError is raised
Transcode(j, ok) ==
    /\ job[j].pc = "transcoding"
    /\ ok => Decodable(job[j].original, job[j].content)
    /\ IF ok
       THEN /\ job' = [job EXCEPT ![j] =
                         [@ EXCEPT !.pc = "exit", !.runs = @ + 1,
                                   !.input = job[j].original,
                                   !.wav = job[j].output]]
            /\ UNCHANGED disk
       ELSE /\ job' = [job EXCEPT ![j] =
                         [@ EXCEPT !.pc = "exit", !.runs = @ + 1,
                                   !.input = job[j].original,
                                   !.raised = "IOError"]]
            /\ disk' = disk \ {job[j].output}
    /\ UNCHANGED <<lbVars, authVars, routeVars, cm, cmGlobal, loopVars,
                   invalidFor, parseVars>>

\* the finally block that keeps the count of active conversions
ExitSlotKeepsCount(j) ==
    /\ job[j].pc = "exit"
    /\ cm' = [cm EXCEPT ![job[j].mgr].active_conversions =
                           IF job[j].raised = "None" THEN @ - 1 ELSE @]
    /\ job' = [job EXCEPT ![j].pc = "release"]
    /\ UNCHANGED <<lbVars, authVars, routeVars, cmGlobal, disk, loopVars,
                   invalidFor, parseVars>>

\* acquire_conversion_slot, the finally block: the counter, under the lock
ExitSlot(j) ==
    /\ job[j].pc = "exit"
    /\ cm' = [cm EXCEPT ![job[j].mgr].active_conversions = @ - 1]
    /\ job' = [job EXCEPT ![j].pc = "release"]
    /\ UNCHANGED <<lbVars, authVars, routeVars, cmGlobal, disk, loopVars,
                   invalidFor, parseVars>>

\* acquire_conversion_slot, the finally block: semaphore.release(); the
\* thread leaves convert_to_wav and the future is done
ReleaseSlot(j) ==
    /\ job[j].pc = "release"
    /\ cm' = [cm EXCEPT ![job[j].mgr].semaphore = @ + 1]
    /\ job' = [job EXCEPT ![j].pc = "resume"]
    /\ UNCHANGED <<lbVars, authVars, routeVars, cmGlobal, disk, loopVars,
                   invalidFor, parseVars>>

\* process_and_convert_audio after its await: the two paths are returned
\* when the output exists; an exception removes the original file and is
\* raised again as ValueError (unsupported format) or IOError
Resume(j) ==
    /\ job[j].pc = "resume"
    /\ IF job[j].raised = "None" /\ job[j].wav \in disk
       THEN /\ job' = [job EXCEPT ![j] =
                         [@ EXCEPT !.pc = "returned", !.result = "returned"]]
            /\ UNCHANGED disk
       ELSE /\ job' = [job EXCEPT ![j] =
                         [@ EXCEPT !.pc = "done", !.wav = NoPath,
                                   !.result = IF job[j].raised = "ValueError"
                                              THEN "ValueError"
                                              ELSE "IOError"]]
            /\ disk' = disk \ {job[j].original}
    /\ UNCHANGED <<lbVars, authVars, routeVars, cm, cmGlobal, loopVars,
                   invalidFor, parseVars>>

\* cleanup_converted_file without its test of the two paths
cleanup_converted_file_any(d, file_path, original_path) ==
    [disk |-> d \ {file_path}, ret |-> TRUE]

\* AudioConverter.cleanup_converted_file: the files left and the value
\* returned
cleanup_converted_file(d, file_path, original_path) ==
    IF file_path # original_path /\ file_path \in d
    THEN [disk |-> d \ {file_path}, ret |-> TRUE]
    ELSE [disk |-> d, ret |-> TRUE]

\* the owner of the two paths of call j calls cleanup_converted_file
CleanupConvertedFile(j, file_path, original_path) ==
    /\ job[j].pc = "returned"
    /\ {file_path, original_path} \subseteq {job[j].wav, job[j].original}
    /\ disk' = cleanup_converted_file(disk, file_path, original_path).disk
    /\ job' = [job EXCEPT ![j] =
                 [@ EXCEPT !.pc = "cleaned",
                           !.cleanup =
                               [file_path |-> file_path,
                                original_path |-> original_path,
                                ret |-> cleanup_converted_file(
                                            disk, file_path,
                                            original_path).ret]]]
    /\ UNCHANGED <<lbVars, authVars, routeVars, cm, cmGlobal, loopVars,
                   invalidFor, parseVars>>

\* AudioProcessor.cleanup_temp_file(original_file_path), the last statement
\* of cleanup_audio_files
CleanupTempFile(j) ==
    /\ job[j].pc = "cleaned"
    /\ disk' = disk \ {job[j].original}
    /\ job' = [job EXCEPT ![j].pc = "done"]
    /\ UNCHANGED <<lbVars, authVars, routeVars, cm, cmGlobal, loopVars,
                   invalidFor, parseVars>>

\* -------------------------------- the parser (_parse_model_response)
\* A text is the sequence of its lines, a line the sequence of its
\* characters; "raw_text" and "k" stand for words, ":" for either colon, " "
\* for white space.  None is the content of a reply that carries no text.
ReplyChars == {"raw_text", "k", ":", " "}
Text(lines) == [isNone |-> FALSE, lines |-> lines]
NoneText == [isNone |-> TRUE, lines |-> <<>>]
RawKey == <<"raw_text">>
NoKey == <<>>

RECURSIVE LStripSpace(_)
LStripSpace(s) ==
    IF s # <<>> /\ Head(s) = " " THEN LStripSpace(Tail(s)) ELSE s

RECURSIVE RStripSpace(_)
RStripSpace(s) ==
    IF s # <<>> /\ s[Len(s)] = " "
    THEN RStripSpace(SubSeq(s, 1, Len(s) - 1)) ELSE s

\* str.strip() of a line
StripLine(s) == RStripSpace(LStripSpace(s))

RECURSIVE DropBlankHead(_)
DropBlankHead(lines) ==
    IF lines # <<>> /\ StripLine(Head(lines)) = <<>>
    THEN DropBlankHead(Tail(lines)) ELSE lines

RECURSIVE DropBlankLast(_)
DropBlankLast(lines) ==
    IF lines # <<>> /\ StripLine(lines[Len(lines)]) = <<>>
    THEN DropBlankLast(SubSeq(lines, 1, Len(lines) - 1)) ELSE lines

\* content.strip().split('\n'), each line stripped as the loop strips it;
\* the text without characters gives one empty line
StripSplit(lines) ==
    LET kept == DropBlankLast(DropBlankHead(lines))
    IN  IF kept = <<>> THEN << <<>> >>
        ELSE [i \in 1..Len(kept) |-> StripLine(kept[i])]

FirstColon(s) ==
    IF \E i \in 1..Len(s) : s[i] = ":"
    THEN CHOOSE i \in 1..Len(s) :
            s[i] = ":" /\ \A k \in 1..(i - 1) : s[k] # ":"
    ELSE 0

\* parsed_output[key] = value
Put(out, key, value) ==
    [x \in DOMAIN out \cup {key} |-> IF x = key THEN value ELSE out[x]]

\* parsed_output[current_key] = "\n".join(current_value_lines)
Store(out, key, value_lines) ==
    IF key = NoKey THEN out ELSE Put(out, key, Text(value_lines))

\* the loop over the lines, with parsed_output, current_key and
\* current_value_lines, and the statement after it
RECURSIVE ParseLines(_, _, _, _)
ParseLines(lines, out, key, value_lines) ==
    IF lines = <<>> THEN Store(out, key, value_lines)
    ELSE LET s == Head(lines)
             c == FirstColon(s)
             new_key == StripLine(SubSeq(s, 1, c - 1))
             first_line == StripLine(SubSeq(s, c + 1, Len(s)))
         IN  IF s = <<>>
             THEN ParseLines(Tail(lines), out, key,
                             IF key # NoKey THEN Append(value_lines, <<>>)
                             ELSE value_lines)
             ELSE IF c # 0 /\ new_key # NoKey
             THEN ParseLines(Tail(lines), Store(out, key, value_lines),
                             new_key, <<first_line>>)
             ELSE ParseLines(Tail(lines), out, key,
                             IF key # NoKey THEN Append(value_lines, s)
                             ELSE value_lines)

\* _parse_model_response: the AttributeError of None.strip() is caught and
\* the dictionary made before the try block is returned
parse_model_response(content) ==
    LET parsed_output == [x \in {RawKey} |-> content]
    IN  IF content.isNone THEN parsed_output
        ELSE ParseLines(StripSplit(content.lines), parsed_output, NoKey, <<>>)

\* the reply of a backend is parsed
ParseReply ==
    /\ DOMAIN parsed = {}
    /\ parsed' = parse_model_response(reply)
    /\ UNCHANGED <<lbVars, authVars, routeVars, convVars, loopVars,
                   invalidFor, reply>>

\* ---------------------------------------------------------- specifications
\* LoadBalancedLLMService.__init__ with two configured backends
InitPool(strategies) ==
    /\ backends = [b \in Names |->
                      BackendConfig(ConfiguredWeight(b), MaxConnCfg)]
    /\ metrics = [b \in Names |-> BackendMetrics]
    /\ mOrder = <<"A", "B">>
    /\ clients = Names
    /\ strategy \in strategies
    /\ rrIndex = 0
    /\ req = [r \in Reqs |-> IdleReq]
    /\ admin = NoAdmin
    /\ probe = [p \in Probers |-> IdleProbe]
    /\ nOps = 0

\* the settings of the run, a store that holds K1, an empty cache
InitCredentials(authFlags, cacheFlags) ==
    /\ authEnabled \in authFlags
    /\ cacheEnabled \in cacheFlags
    /\ store = [k \in Secrets |-> IF k = K1 THEN APIKey(<<"m">>, "None", FALSE) ELSE NoRecord]
    /\ cache = [ck \in CacheKeys |-> NoEntry]
    /\ proc = [p \in Procs |-> IdleProc]
    /\ nCalls = 0

\* no upload has reached the normalizer, no ConcurrencyManager exists yet,
\* no health check task has been created, every record of the store is as
\* it was written
InitRest ==
    /\ job = [j \in Jobs |-> IdleJob]
    /\ cm = <<>>
    /\ cmGlobal = 0
    /\ disk = {}
    /\ hcTask = 0
    /\ loops = <<>>
    /\ waiter = [c \in 1 .. NumCallers |-> 0]
    /\ hcCalls = <<>>
    /\ invalidFor = [k \in Secrets |-> 0]
    /\ reply = NoneText
    /\ parsed = <<>>

\* no request has reached the route, the temporary directory is empty
InitHandlers ==
    /\ handler = [h \in Handlers |-> IdleHandler]
    /\ files = {}
    /\ InitRest

\* the pool: request threads, operator routes and probes
InitLB ==
    InitPool(Strategies) /\ InitCredentials({TRUE}, {FALSE}) /\ InitHandlers

NextLB ==
    \/ \E r \in Reqs, e \in BOOLEAN : Start(r, e)
    \/ \E r \in Reqs : SelectList(r)
    \/ \E r \in Reqs : SelectLocked(r)
    \/ \E r \in Reqs : Resolve(r)
    \/ \E r \in Reqs, o \in {"success", "exception", "empty_choices"},
          d \in Durations : CallReturn(r, o, d)
    \/ \E r \in Reqs : RecordLocked(r)
    \/ \E r \in Reqs : ReleaseCheck(r)
    \/ \E r \in Reqs : ReleaseLocked(r)
    \/ \E b \in Names : AddBackend(b)
    \/ AddClient
    \/ \E b \in Names : RemoveBackend(b)
    \/ RemoveClient
    \/ \E b \in Names : enable_backend(b)
    \/ \E b \in Names : disable_backend(b)
    \/ \E p \in Probers, b \in Names : ProbeStart(p, b)
    \/ \E p \in Probers, d \in Durations : ProbeOk(p, d)
    \/ \E p \in Probers : ProbeFail(p)

SpecLB == InitLB /\ [][NextLB]_vars

\* the credentials: processes calling AuthService over one store and cache
InitAuth ==
    InitPool({"round_robin"}) /\ InitCredentials(BOOLEAN, BOOLEAN)
        /\ InitHandlers

NextAuth ==
    \/ \E p \in Procs, k \in Secrets, ok \in BOOLEAN : VerifyStart(p, k, ok)
    \/ \E p \in Procs : StatsRead(p)
    \/ \E p \in Procs : StatsCommit(p)
    \/ \E p \in Procs : DbRead(p)
    \/ \E p \in Procs : DbCommit(p)
    \/ \E p \in Procs, ok \in BOOLEAN : CacheSet(p, ok)
    \/ \E p \in Procs, k \in Secrets : RevokeCommit(p, k)
    \/ \E p \in Procs, ok \in BOOLEAN : RevokeInvalidate(p, ok)
    \/ \E p \in Procs, k \in Secrets, adm \in BOOLEAN : SetAdminStatus(p, k, adm)
    \/ \E p \in Procs, k \in StoredKeys, name \in KeyNames,
          exp \in {"None", "later"}, adm \in BOOLEAN :
             GenerateApiKey(p, k, name, exp, adm)
    \/ \E k \in StoredKeys : PassExpiry(k)
    \/ \E ck \in CacheKeys : CacheExpire(ck)

SpecAuth == InitAuth /\ [][NextAuth]_vars

\* a step of the worker thread of request r after its start
RequestStep(r) ==
    \/ SelectList(r)
    \/ SelectLocked(r)
    \/ Resolve(r)
    \/ \E o \in {"success", "exception", "empty_choices"}, d \in Durations :
          CallReturn(r, o, d)
    \/ RecordLocked(r)
    \/ ReleaseCheck(r)
    \/ ReleaseLocked(r)

\* the pool with threads that keep running: a started process_audio is
\* scheduled again and again, the lock is held for bounded blocks only and
\* the upstream call returns or raises (the client has a timeout)
SpecLBFair == SpecLB /\ \A r \in Reqs : WF_vars(RequestStep(r))

\* the policies: successive select_backend calls of requests that are still
\* in flight (no connection is released), under round_robin or
\* response_time, over backends with or without a response time sample,
\* while the operator disables and enables backends
InitPick ==
    /\ \E rt \in [Names -> {<<>>} \cup {<<d>> : d \in Durations}] :
         metrics = [b \in Names |->
                      [BackendMetrics EXCEPT !.response_times = rt[b]]]
    /\ backends = [b \in Names |->
                      BackendConfig(ConfiguredWeight(b), MaxConnCfg)]
    /\ mOrder = <<"A", "B">>
    /\ clients = Names
    /\ strategy \in {"round_robin", "response_time"}
    /\ rrIndex = 0
    /\ req = [r \in Reqs |-> IdleReq]
    /\ admin = NoAdmin
    /\ probe = [p \in Probers |-> IdleProbe]
    /\ nOps = 0
    /\ InitCredentials({TRUE}, {FALSE})
    /\ InitHandlers

NextPick ==
    \/ SelectCall("default")
    \/ \E b \in Names : disable_backend(b)
    \/ \E b \in Names : enable_backend(b)

SpecPick == InitPick /\ [][NextPick]_vars

\* the probes: the task the health check loop creates for a backend and the
\* manual health check route, which may probe the same backend at once, over
\* a pool in any health state a run can have reached
ProbeTasks == 1..(NumProbers + 1)
ProbeStates == {"healthy", "unhealthy", "disabled"}

InitProbe ==
    /\ \E st \in [Names -> ProbeStates] :
         metrics = [b \in Names |->
                      [SetStatus(BackendMetrics, st[b]) EXCEPT
                          !.consecutive_failures =
                              IF st[b] = "unhealthy" THEN FailureThreshold ELSE 0]]
    /\ backends = [b \in Names |->
                      BackendConfig(ConfiguredWeight(b), MaxConnCfg)]
    /\ mOrder = <<"A", "B">>
    /\ clients = Names
    /\ strategy = "round_robin"
    /\ rrIndex = 0
    /\ req = [r \in Reqs |-> IdleReq]
    /\ admin = NoAdmin
    /\ probe = [p \in ProbeTasks |-> IdleProbe]
    /\ nOps = 0
    /\ InitCredentials({TRUE}, {FALSE})
    /\ InitHandlers

NextProbe ==
    \/ \E p \in ProbeTasks, b \in Names : ProbeStart(p, b)
    \/ \E p \in ProbeTasks, d \in Durations : ProbeOk(p, d)
    \/ \E p \in ProbeTasks : ProbeFail(p)
    \/ \E b \in Names : AddBackend(b)
    \/ AddClient
    \/ \E b \in Names : RemoveBackend(b)
    \/ RemoveClient
    \/ \E b \in Names : enable_backend(b)
    \/ \E b \in Names : disable_backend(b)

SpecProbe == InitProbe /\ [][NextProbe]_vars

\* the credentials with the cache switched off (REDIS_ENABLED is false, or
\* the ping of RedisCache.__init__ failed) while the Redis server may hold
\* entries an earlier run has written (for an admin key, say); a verification
\* that hit the cache would be taken to _async_update_usage_stats, which the
\* steps below leave out
CacheEntries == {NoEntry, CacheEntry(TRUE, TRUE)}

InitCacheOff ==
    /\ InitPool({"round_robin"})
    /\ authEnabled \in BOOLEAN
    /\ cacheEnabled = FALSE
    /\ store = [k \in Secrets |->
                  IF k = K1 THEN APIKey(<<"m">>, "None", FALSE) ELSE NoRecord]
    /\ cache \in [CacheKeys -> CacheEntries]
    /\ proc = [p \in Procs |-> IdleProc]
    /\ nCalls = 0
    /\ InitHandlers

NextCacheOff ==
    \/ \E p \in Procs, k \in Secrets, ok \in BOOLEAN : VerifyStart(p, k, ok)
    \/ \E p \in Procs : DbRead(p)
    \/ \E p \in Procs : DbCommit(p)
    \/ \E p \in Procs, ok \in BOOLEAN : CacheSet(p, ok)
    \/ \E p \in Procs, k \in Secrets : RevokeCommit(p, k)
    \/ \E p \in Procs, ok \in BOOLEAN : RevokeInvalidate(p, ok)
    \/ \E p \in Procs, k \in Secrets, adm \in BOOLEAN : SetAdminStatus(p, k, adm)
    \/ \E p \in Procs, k \in StoredKeys, name \in KeyNames,
          exp \in {"None", "later"}, adm \in BOOLEAN :
             GenerateApiKey(p, k, name, exp, adm)
    \/ \E k \in StoredKeys : PassExpiry(k)
    \/ \E ck \in CacheKeys : CacheExpire(ck)

SpecCacheOff == InitCacheOff /\ [][NextCacheOff]_vars

\* the pool with time: process_audio with upstream calls that may run into
\* the timeout of their client
InitDeadline ==
    InitPool({"round_robin"}) /\ InitCredentials({TRUE}, {FALSE})
        /\ InitHandlers

NextDeadline ==
    \/ \E r \in Reqs, e \in BOOLEAN : Start(r, e)
    \/ \E r \in Reqs : RequestStep(r)
    \/ \E r \in Reqs : CallTimeout(r)
    \/ \E b \in Names : disable_backend(b)
    \/ \E b \in Names : enable_backend(b)

SpecDeadline == InitDeadline /\ [][NextDeadline]_vars

\* the route: each request is authenticated by the server process, saves
\* and converts its upload and runs process_audio, while an operator
\* disables and enables backends
InitRoute ==
    InitPool({"round_robin"}) /\ InitCredentials(BOOLEAN, BOOLEAN)
        /\ InitHandlers

NextRoute ==
    \/ \E h \in Handlers, k \in Secrets, u \in Uploads : Arrive(h, k, u)
    \/ \E h \in Handlers, ok \in BOOLEAN : Authenticate(h, ok)
    \/ StatsRead(ServerProc)
    \/ StatsCommit(ServerProc)
    \/ DbRead(ServerProc)
    \/ DbCommit(ServerProc)
    \/ \E ok \in BOOLEAN : CacheSet(ServerProc, ok)
    \/ \E h \in Handlers : AuthDone(h)
    \/ \E h \in Handlers, saved \in BOOLEAN : SaveUpload(h, saved)
    \/ \E h \in Handlers : ConvertRun(h)
    \/ \E h \in Handlers, converted \in BOOLEAN : ConvertReturn(h, converted)
    \/ \E h \in Handlers : Cancel(h)
    \/ \E h \in Handlers, e \in BOOLEAN : Dispatch(h, e)
    \/ \E h \in Handlers : RequestStep(h)
    \/ \E h \in Handlers : Finish(h)
    \/ \E b \in Names : disable_backend(b)
    \/ \E b \in Names : enable_backend(b)

SpecRoute == InitRoute /\ [][NextRoute]_vars

\* the dependency: requests with any pair of headers reach the route (their
\* upload is refused once they are through)
InitGate ==
    InitPool({"round_robin"}) /\ InitCredentials(BOOLEAN, BOOLEAN)
        /\ InitHandlers

NextGate ==
    \/ \E h \in Handlers, x \in Headers, b \in Headers :
          ArriveWith(h, x, b, "invalid")
    \/ \E h \in Handlers, ok \in BOOLEAN : Authenticate(h, ok)
    \/ StatsRead(ServerProc)
    \/ StatsCommit(ServerProc)
    \/ DbRead(ServerProc)
    \/ DbCommit(ServerProc)
    \/ \E ok \in BOOLEAN : CacheSet(ServerProc, ok)
    \/ \E h \in Handlers : AuthDone(h)
    \/ \E h \in Handlers, saved \in BOOLEAN : SaveUpload(h, saved)
    \/ \E ck \in CacheKeys : CacheExpire(ck)

SpecGate == InitGate /\ [][NextGate]_vars

\* the ring: a pool of three backends in any health state under
\* consistent_hash, changed by the operator routes and the probes
RingNames == {"A", "B", "C"}
RingStates == {"absent", "healthy", "unhealthy", "disabled"}

RECURSIVE FilterIn(_, _)
FilterIn(order, S) ==
    IF order = <<>> THEN <<>>
    ELSE IF Head(order) \in S THEN <<Head(order)>> \o FilterIn(Tail(order), S)
    ELSE FilterIn(Tail(order), S)

InitRing ==
    /\ \E st \in [RingNames -> RingStates] :
         /\ backends = [b \in RingNames |->
                          IF st[b] = "absent" THEN NoCfg
                          ELSE BackendConfig(ConfiguredWeight(b), MaxConnCfg)]
         /\ metrics = [b \in RingNames |->
                          IF st[b] = "absent" THEN NoMetrics
                          ELSE SetStatus(BackendMetrics, st[b])]
         /\ mOrder = FilterIn(<<"A", "B", "C">>,
                              {b \in RingNames : st[b] # "absent"})
         /\ clients = {b \in RingNames : st[b] # "absent"}
    /\ strategy = "consistent_hash"
    /\ rrIndex = 0
    /\ req = [r \in Reqs |-> IdleReq]
    /\ admin = NoAdmin
    /\ probe = [p \in Probers |-> IdleProbe]
    /\ nOps = 0
    /\ InitCredentials({TRUE}, {FALSE})
    /\ InitHandlers

NextRing ==
    \/ \E b \in RingNames : AddBackend(b)
    \/ AddClient
    \/ \E b \in RingNames : RemoveBackend(b)
    \/ RemoveClient
    \/ \E b \in RingNames : enable_backend(b)
    \/ \E b \in RingNames : disable_backend(b)
    \/ \E p \in Probers, b \in RingNames : ProbeStart(p, b)
    \/ \E p \in Probers, d \in Durations : ProbeOk(p, d)
    \/ \E p \in Probers : ProbeFail(p)

SpecRing == InitRing /\ [][NextRing]_vars

\* the normalizer under load: calls that all need the transcoder, with fewer
\* slots than workers threads
ConvertNames == {<<"a", ".", "opus">>}
ConvertContents == {OpusContent}

InitConvert ==
    InitPool({"round_robin"}) /\ InitCredentials({TRUE}, {FALSE})
        /\ InitHandlers

NextConvert ==
    \/ \E j \in Jobs, fn \in ConvertNames, c \in ConvertContents :
          Upload(j, fn, c)
    \/ \E j \in Jobs : WorkerTake(j)
    \/ \E j \in Jobs : GetManager(j)
    \/ \E j \in Jobs : CreateManager(j)
    \/ \E j \in Jobs : ReturnManager(j)
    \/ \E j \in Jobs : Acquire(j)
    \/ \E j \in Jobs : EnterSlot(j)
    \/ \E j \in Jobs, ok \in BOOLEAN : Transcode(j, ok)
    \/ \E j \in Jobs : ExitSlot(j)
    \/ \E j \in Jobs : ReleaseSlot(j)
    \/ \E j \in Jobs : Resume(j)

SpecConvert == InitConvert /\ [][NextConvert]_vars

\* the normalizer on one upload of any name and content, and the helper
\* called with any two of the paths of the call
UploadNames ==
    {stem \o <<".", e>> :
        stem \in {<<"a">>, <<"u8">>}, e \in {"wav", "WAV", "opus", "txt"}}
UploadContents ==
    {WavContent(r, ch, w) :
        r \in {WavFrameRate, 3 * WavFrameRate},
        ch \in {WavChannels, WavChannels + 1},
        w \in {WavSampleWidth, WavSampleWidth + 1}}
        \cup {OpusContent, Undecodable, EmptyContent}

NormalizePaths ==
    {UploadPath(1, fn) : fn \in UploadNames} \cup {ConvertedPath(1)}

InitNormalize ==
    InitPool({"round_robin"}) /\ InitCredentials({TRUE}, {FALSE})
        /\ InitHandlers

NextNormalize ==
    \/ \E fn \in UploadNames, c \in UploadContents : Upload(1, fn, c)
    \/ WorkerTake(1)
    \/ GetManager(1)
    \/ CreateManager(1)
    \/ ReturnManager(1)
    \/ Acquire(1)
    \/ EnterSlot(1)
    \/ \E ok \in BOOLEAN : Transcode(1, ok)
    \/ ExitSlot(1)
    \/ ReleaseSlot(1)
    \/ Resume(1)
    \/ \E p \in NormalizePaths, o \in NormalizePaths :
          CleanupConvertedFile(1, p, o)
    \/ CleanupTempFile(1)

SpecNormalize == InitNormalize /\ [][NextNormalize]_vars

\* the parser on any reply of at most MaxLines lines of at most MaxLineLen
\* characters, and on a reply without text
RECURSIVE SeqsUpTo(_, _)
SeqsUpTo(S, n) ==
    IF n = 0 THEN {<<>>}
    ELSE LET shorter == SeqsUpTo(S, n - 1)
         IN  shorter \cup {Append(s, x) : s \in shorter, x \in S}

Replies ==
    {Text(ls) : ls \in SeqsUpTo(SeqsUpTo(ReplyChars, MaxLineLen), MaxLines)}
        \cup {NoneText}

InitParse ==
    /\ InitPool({"round_robin"}) /\ InitCredentials({TRUE}, {FALSE})
    /\ handler = [h \in Handlers |-> IdleHandler]
    /\ files = {}
    /\ job = [j \in Jobs |-> IdleJob]
    /\ cm = <<>>
    /\ cmGlobal = 0
    /\ disk = {}
    /\ hcTask = 0
    /\ loops = <<>>
    /\ waiter = [c \in 1 .. NumCallers |-> 0]
    /\ hcCalls = <<>>
    /\ invalidFor = [k \in Secrets |-> 0]
    /\ reply \in Replies
    /\ parsed = <<>>

NextParse == ParseReply

SpecParse == InitParse /\ [][NextParse]_vars

\* the credentials with time: verifications, revocations, expiry and
\* cleanup over a cache whose entries live for CacheTtl units
InitTtl ==
    /\ InitPool({"round_robin"})
    /\ authEnabled = TRUE
    /\ cacheEnabled = TRUE
    /\ store = [k \in Secrets |->
                  IF k = K1 THEN APIKey(<<"m">>, "later", FALSE)
                  ELSE NoRecord]
    /\ cache = [ck \in CacheKeys |-> NoEntry]
    /\ proc = [p \in Procs |-> IdleProc]
    /\ nCalls = 0
    /\ InitHandlers

NextTtl ==
    \/ \E p \in Procs, ok \in BOOLEAN : VerifyStart(p, K1, ok)
    \/ \E p \in Procs : StatsRead(p)
    \/ \E p \in Procs : StatsCommit(p)
    \/ \E p \in Procs : DbRead(p)
    \/ \E p \in Procs : DbCommit(p)
    \/ \E p \in Procs, ok \in BOOLEAN : CacheSet(p, ok)
    \/ \E p \in Procs : RevokeCommit(p, K1)
    \/ \E p \in Procs, ok \in BOOLEAN : RevokeInvalidate(p, ok)
    \/ \E p \in Procs : CleanupExpiredKeys(p)
    \/ PassExpiry(K1)
    \/ Tick

SpecTtl == InitTtl /\ [][NextTtl]_vars

\* the health-check loop under any calls of start and stop by the operators
LoopIds == 1 .. MaxHcCalls

InitHealthCheck ==
    /\ InitPool({"round_robin"})
    /\ InitCredentials({TRUE}, {TRUE})
    /\ InitHandlers

NextHealthCheck ==
    \/ \E c \in Callers : StartHealthCheck(c)
    \/ \E c \in Callers : StopHealthCheck(c)
    \/ \E c \in Callers : StopReturn(c)
    \/ \E i \in LoopIds : LoopWake(i)
    \/ \E i \in LoopIds, raises \in BOOLEAN : LoopRound(i, raises)
    \/ \E i \in LoopIds : LoopCancelled(i)

SpecHealthCheck == InitHealthCheck /\ [][NextHealthCheck]_vars

\* ------------------------------------------------------- claims, the pool
ActiveOf(b) == metrics[b].active_connections

\* C1: in every reachable state, under any interleaving of select_backend,
\* release_connection, record_request_result, probes, enable/disable and
\* add/remove, active_connections of every registered backend is an integer
\* that is at least 0.
C1_ActiveNonNegative ==
    \A b \in Names : Registered(b) => ActiveOf(b) \in Nat

\* C1, its case: release_connection is under the lock for a backend whose
\* counter is already 0 (the entry was replaced while the request held it).
C1_ReleaseAtZero ==
    \E r \in Reqs :
        /\ req[r].pc = "release_upd"
        /\ Registered(req[r].backend)
        /\ ActiveOf(req[r].backend) = 0

\* C2: select/release parity.  Once every started request has returned, no
\* registered backend is left with a selection that was not released: its
\* active_connections is 0.
C2_ParityAtRest ==
    (\A r \in Reqs : req[r].pc \in {"idle", "done"})
        => \A b \in Names : Registered(b) => ActiveOf(b) = 0

\* C3: active_connections of a backend never exceeds its max_connections.
C3_WithinCapacity ==
    \A b \in Names :
        (Registered(b) /\ backends[b] # NoCfg)
            => ActiveOf(b) <= backends[b].max_connections

\* the step of request r in which select_backend increments and returns
Picks(r) == req[r].pc = "pick" /\ req'[r].pc = "resolve"

C5_ProbeKeepsDisabled ==
    [][\A p \in Probers :
          (ProbeFail(p) \/ \E d \in Durations : ProbeOk(p, d))
             => \A b \in Names :
                   (Registered(b) /\ metrics[b].status = "disabled")
                      => metrics'[b].status = "disabled"]_vars

\* C11: a failed probe of a Healthy backend counts the failure, and the
\* backend is Unhealthy after it exactly when the count it leaves has reached
\* failure_threshold; below the threshold the backend stays Healthy.
C11_UnhealthyAtThreshold ==
    [][\A p \in Probers :
          (ProbeFail(p) /\ ~probe[p].orphan
                        /\ metrics[probe[p].name].status = "healthy")
             => LET b == probe[p].name
                    n == metrics[b].consecutive_failures + 1
                IN  /\ metrics'[b].consecutive_failures = n
                    /\ metrics'[b].status =
                          IF n >= FailureThreshold THEN "unhealthy" ELSE "healthy"]_vars

\* C11, its case: failure_threshold failed probes in a row have made a
\* backend Unhealthy.
C11_ThresholdReached ==
    \E b \in Names :
        /\ Registered(b)
        /\ metrics[b].status = "unhealthy"
        /\ metrics[b].consecutive_failures = FailureThreshold

\* C12: a request makes at most max_retries + 1 selections and upstream
\* calls (every selection belongs to one iteration 0..max_retries, every
\* upstream call follows the selection of its iteration), makes no further
\* attempt once an upstream call has succeeded or a selection has found no
\* backend, and always ends with a result.
C12_AttemptsBoundedAndEnd ==
    /\ [](\A r \in Reqs : req[r].attempt \in 0..MaxRetries)
    /\ [][\A r \in Reqs :
             /\ (req'[r].pc = "select" /\ req[r].pc # "select")
                   => req'[r].attempt = req[r].attempt + 1
             /\ (req'[r].pc = "pick" /\ req[r].pc # "pick")
                   => (req[r].pc \in {"idle", "select"}
                          /\ req'[r].attempt = req[r].attempt)
             /\ (req'[r].pc = "resolve" /\ req[r].pc # "resolve")
                   => req[r].pc = "pick"
             /\ (req'[r].pc = "call" /\ req[r].pc # "call")
                   => req[r].pc = "resolve"
             /\ req[r].ok
                   => (req'[r].ok
                         \/ (req'[r].pc = "done" /\ req'[r].result = "success"))
             /\ (req'[r].result = "no_backend" /\ req[r].pc # "done")
                   => req[r].pc \in {"idle", "select", "pick"}
             /\ req[r].pc = "done" => req'[r] = req[r]]_vars
    /\ \A r \in Reqs : (req[r].pc # "idle") ~> (req[r].pc = "done")

\* C13: a request that has used all its attempts without a success returns
\* an error that carries the error text of the last attempt and the name of
\* the backend tried last.
C13_ExhaustionNamesLast ==
    \A r \in Reqs :
        (req[r].pc = "done" /\ req[r].result \in {"failed", "all_failed"})
            => (req[r].backend # NoName /\ req[r].error = "set")

\* C14: every attempt on which a backend was picked records exactly one
\* outcome on it (the attempt goes on to the upstream call, the call to the
\* record, and the record adds one to total_requests and to exactly one of
\* successful_requests and failed_requests), so that total_requests =
\* successful_requests + failed_requests; and in the failover case (round
\* robin over A and B, nothing else running, A's call failed) the request
\* succeeds on B with A.failed_requests = 1, B.successful_requests = 1 and
\* no active connection left.
C14_OneOutcomePerAttempt ==
    /\ [](\A b \in Names :
             Registered(b)
                => metrics[b].total_requests
                      = metrics[b].successful_requests + metrics[b].failed_requests)
    /\ [][\A r \in Reqs :
             /\ (req[r].pc = "resolve" /\ Registered(req[r].backend))
                   => req'[r].pc \in {"resolve", "call"}
             /\ (req[r].pc = "call" /\ Registered(req[r].backend))
                   => req'[r].pc \in {"call", "record_upd"}
             /\ (req'[r].pc = "record_upd" /\ req[r].pc # "record_upd")
                   => req[r].pc = "call"
             /\ (RecordLocked(r) /\ Registered(req[r].backend))
                   => LET m == metrics[req[r].backend]
                          n == metrics'[req[r].backend]
                      IN  /\ n.total_requests = m.total_requests + 1
                          /\ n.successful_requests + n.failed_requests
                                = m.successful_requests + m.failed_requests + 1
                          /\ n.successful_requests >= m.successful_requests
                          /\ n.failed_requests >= m.failed_requests]_vars
    /\ [](\A r \in Reqs :
             (/\ strategy = "round_robin" /\ nOps = 0
              /\ \A q \in Reqs \ {r} : req[q] = IdleReq
              /\ req[r].pc = "done" /\ req[r].result = "success"
              /\ metrics["A"].failed_requests = 1)
                => (/\ req[r].backend = "B"
                    /\ metrics["B"].successful_requests = 1
                    /\ ActiveOf("A") = 0 /\ ActiveOf("B") = 0))

\* C17: under each policy select_backend returns no backend when no
\* registered backend is Healthy, and the Healthy backend when exactly one
\* is, whatever the other backends and the request key.
C17_OneHealthyIsPicked ==
    LET S == {b \in Names : Registered(b) /\ metrics[b].status = "healthy"}
    IN  \A k \in HashKeys : \A o \in select_backend(k) :
            /\ S = {} => o.backend = NoName
            /\ Cardinality(S) = 1 => (~o.err /\ o.backend \in S)

\* what the health view holds for a name
Health(b) == IF Registered(b) THEN metrics[b].status ELSE "absent"

\* the backend _consistent_hash_select returns for key k, NoName for None
HashPick(k) == (CHOOSE o \in consistent_hash_select(k) : TRUE).backend

\* the step changes the registration, the status or the configuration of no
\* backend other than b
OnlyChanged(b) ==
    \A c \in RingNames \ {b} :
        Health(c)' = Health(c) /\ backends'[c] = backends[c]

\* C18 as claimed: for a fixed key, a change of the Healthy status of a
\* backend other than the picked one, in either direction, or its addition
\* or removal, does not change the pick.
C18_PickUnchanged ==
    [][\A k \in HashKeys :
          LET old == HashPick(k)
              new == HashPick(k)'
          IN  \A b \in RingNames :
                 (OnlyChanged(b) /\ old \notin {NoName, b}) => new = old]_vars

\* C18 as amended: after a step that changes only a backend b other than the
\* picked one, the pick for the key is the same when b is not Healthy after
\* the step (made Unhealthy, disabled, removed), and is the same or b when b
\* is Healthy after it (enabled, probed with success, added).
C18_PickMovesOnlyToRestored ==
    [][\A k \in HashKeys :
          LET old == HashPick(k)
              new == HashPick(k)'
          IN  \A b \in RingNames :
                 (OnlyChanged(b) /\ old \notin {NoName, b})
                    => /\ new \in {old, b}
                       /\ Health(b)' # "healthy" => new = old]_vars

\* C18, its case: an operator or probe step has been taken, a key has a
\* pick, and a backend other than the pick, not Healthy now, owns the first
\* node at or after the key.
C18_OwnerDown ==
    \E b \in RingNames, k \in HashKeys :
        LET after == {i \in HashRing : i > KeyPos(k)}
        IN  /\ nOps > 0
            /\ HashPick(k) \notin {NoName, b}
            /\ Health(b) \in {"unhealthy", "disabled"}
            /\ after # {}
            /\ RingTable[SetMin(after)][1] = b

C16_FilesReaped ==
    \A h \in Handlers :
        handler[h].pc = "done" => FilesOf(h, handler[h].id) = {}

\* ------------------------------------------------ claims, the credentials
\* the step in which process p returns from verify_api_key
VerifyReturns(p) == proc[p].pc # "idle" /\ proc[p].op = "verify" /\ proc'[p].pc = "idle"

\* process p is idle and its last call was revoke_api_key(k), which returned True
Revoked(p, k) ==
    proc[p].pc = "idle" /\ proc[p].ret = [op |-> "revoke", key |-> k,
                                          ok |-> TRUE, is_admin |-> FALSE]

\* C6: when revoke(k) returns true with the cache enabled the cache holds no
\* entry for k, and a verify(k) that starts after that return does not take
\* the cache-hit path (the only path that can still answer valid).
C6_RevokeClearsCache ==
    [][/\ \A p \in Procs :
             (cacheEnabled /\ proc[p].pc = "invalidate" /\ proc'[p].pc = "idle")
                => cache'[GetCacheKey(proc[p].key)] = NoEntry
       /\ \A q \in Procs, k \in Secrets :
             (/\ cacheEnabled /\ authEnabled
              /\ \E p \in Procs : Revoked(p, k)
              /\ proc[q].pc = "idle" /\ proc'[q].op = "verify" /\ proc'[q].key = k)
                => proc'[q].pc = "db_read"]_vars

\* C7: verify(s) answers valid only if the store holds a record whose secret
\* is exactly s (records are never deleted, so "holds" covers "held").
C7_ValidOnlyForStoredSecret ==
    \A p \in Procs :
        (authEnabled /\ proc[p].ret.op = "verify" /\ proc[p].ret.ok)
            => store[proc[p].ret.key] # NoRecord

\* C8: every successful verification adds exactly one to the record's
\* usage_count: the counter after the commit of a verification is the counter
\* before it plus one.
C8_CommitAddsOne ==
    [][\A p \in Procs :
          (proc[p].pc \in {"db_commit", "stats_commit"} /\ proc'[p].pc # proc[p].pc)
             => store'[proc[p].key].usage_count
                    = store[proc[p].key].usage_count + 1]_vars

\* C9: when set_admin(k, v) returns true with the cache enabled, the cache
\* holds no entry for k.
C9_SetAdminClearsCache ==
    [][\A p \in Procs, k \in Secrets, v \in BOOLEAN :
          (cacheEnabled /\ store[k] # NoRecord /\ SetAdminStatus(p, k, v))
             => cache'[GetCacheKey(k)] = NoEntry]_vars

\* C10 as claimed: when a verify(k) returns (false, _), the cache holds no
\* entry under k's cache key.
C10_NoEntryAfterNegative ==
    [][\A p \in Procs :
          (cacheEnabled /\ VerifyReturns(p) /\ ~proc'[p].ret.ok)
             => cache'[GetCacheKey(proc[p].key)] = NoEntry]_vars

\* C10 as amended: a verification that returns (false, _) returns from the
\* store lookup and its return leaves the cache as it was; set_api_key_auth
\* writes nothing for a result that is not valid; every entry of the cache
\* has is_valid true.
C10_NegativeNeverWritten ==
    [][/\ \A p \in Procs :
             (VerifyReturns(p) /\ ~proc'[p].ret.ok)
                => (proc[p].pc = "db_read" /\ cache' = cache)
       /\ \A k \in Secrets, adm \in BOOLEAN, ok \in BOOLEAN :
             set_api_key_auth(cache, k, FALSE, adm, ok) = cache
       /\ \A ck \in CacheKeys :
             cache'[ck] # NoEntry => cache'[ck].is_valid]_vars

\* C10, its case: a verification has returned (false, _) and the cache
\* holds an entry under the cache key of the string it was given.
C10_NegativeBesideEntry ==
    \E p \in Procs :
        /\ cacheEnabled
        /\ proc[p].ret.op = "verify"
        /\ ~proc[p].ret.ok
        /\ cache[GetCacheKey(proc[p].ret.key)] # NoEntry

\* C19: the store path answers valid exactly when the record exists, is
\* active and has no expiry or an expiry strictly after now (an expiry equal
\* to now is not valid); without a record the answer is (false, false).
C19_ValidIffStrictlyBeforeExpiry ==
    [][\A p \in Procs :
          (proc[p].pc = "db_read" /\ proc'[p].pc # "db_read")
             => LET rec == store[proc[p].key]
                IN  /\ (proc'[p].pc = "db_commit")
                          <=> (/\ rec # NoRecord
                               /\ rec.is_active
                               /\ rec.expires_at \in {"None", "later"})
                    /\ proc'[p].pc # "db_commit"
                          => (/\ proc'[p].pc = "idle"
                              /\ ~proc'[p].ret.ok
                              /\ rec = NoRecord => ~proc'[p].ret.is_admin)]_vars

\* C20: the usage_count of a record never decreases.
C20_UsageNeverDecreases ==
    [][\A k \in Secrets :
          (store[k] # NoRecord /\ store'[k] # NoRecord)
             => store'[k].usage_count >= store[k].usage_count]_vars

Named(st, n) == {r \in list_api_keys(st, FALSE) : r.name = n}

\* process 1 has made the only two calls of the run, k = create(name = N)
\* with the other arguments left at their defaults and then verify(k)
CreatedThenVerified(k) ==
    /\ nCalls = 2
    /\ \A q \in Procs \ {1} : proc[q] = IdleProc
    /\ proc[1].pc = "idle"
    /\ proc[1].ret.op = "verify" /\ proc[1].ret.key = k
    /\ k # K1 /\ store[k] # NoRecord
    /\ store[k].name \in KeyNames \ {NoKeyName}
    /\ store[k].expires_at = "None" /\ ~store[k].is_admin

\* C22: generate/verify round trip.  k = create(name = N), N a name the
\* caller gives, in a store with no record named N: k is not a secret of the
\* store, and after the call list() has exactly one record named N; the
\* verify(k) that follows returns (true, false).
C22_GenerateVerifyRoundTrip ==
    /\ [](\A k \in StoredKeys :
             CreatedThenVerified(k) => (proc[1].ret.ok /\ ~proc[1].ret.is_admin))
    /\ [][\A p \in Procs, k \in StoredKeys, N \in KeyNames \ {NoKeyName},
             exp \in {"None", "later"}, adm \in BOOLEAN :
             (GenerateApiKey(p, k, N, exp, adm) /\ Named(store, N) = {})
                => /\ store[k] = NoRecord
                   /\ Cardinality(Named(store', N)) = 1
                   /\ proc'[p].ret.op = "generate" /\ proc'[p].ret.key = k]_vars

\* C22, its case: a key created under a name no other record has was
\* verified next, and list() shows one record of that name.
C22_RoundTripDone ==
    \E k \in StoredKeys :
        /\ CreatedThenVerified(k)
        /\ proc[1].ret.ok
        /\ Cardinality(Named(store, store[k].name)) = 1

\* C23: a request is let through exactly when the credential it presents
\* verifies as valid, the credential being the X-API-Key header when there
\* is one and the bearer token otherwise: one verification per request, of
\* that credential only (with both headers the bearer token is not
\* consulted); with neither header the request is refused as unauthorized
\* without a verification; with authentication off every request is let
\* through and verify_api_key answers (true, false).
C23_HeaderThenBearer ==
    /\ [](~authEnabled =>
             \A k \in Secrets, ok \in BOOLEAN :
                VerifyEntry(k, ok).ret
                    = [op |-> "verify", key |-> k, ok |-> TRUE, is_admin |-> FALSE])
    /\ [][\A h \in Handlers :
             (handler[h].pc = "auth" /\ handler'[h].pc # "auth") =>
                LET hd == handler[h]
                    cred == IF hd.x_api_key # NoHeader THEN hd.x_api_key
                            ELSE hd.bearer
                    ret == proc[ServerProc].ret
                IN  IF ~authEnabled THEN handler'[h].pc = "save"
                    ELSE /\ handler'[h].pc = "save"
                               <=> (cred # NoHeader /\ ret # NoRet /\ ret.ok)
                         /\ handler'[h].pc # "save"
                               => (handler'[h].pc = "done"
                                     /\ handler'[h].result = "unauthorized")
                         /\ ret # NoRet
                               => (ret.op = "verify" /\ ret.key = cred)
                         /\ cred = NoHeader => ret = NoRet
                         /\ nCalls' = hd.id]_vars

\* C23, its case: a request with a key of no record in X-API-Key and a
\* valid key as bearer token was refused.
C23_BearerNotConsulted ==
    \E h \in Handlers :
        /\ authEnabled
        /\ handler[h].pc = "done" /\ handler[h].result = "unauthorized"
        /\ handler[h].x_api_key = K2 /\ handler[h].bearer = K1
        /\ store[K1] # NoRecord /\ is_valid(store[K1])

\* the deadline of a request: the one time limit its configuration holds,
\* the timeout of a backend
RequestDeadline == TimeoutTicks

\* C24: each request carries a deadline, and an upstream call that is in
\* flight when the deadline expires is aborted then: no request spends more
\* time in upstream calls than its deadline allows.
C24_CallsEndByDeadline ==
    \A r \in Reqs : req[r].elapsed <= RequestDeadline

\* a step of the store-only implementation: AuthService with every call of
\* redis_cache taken out.  The cache is not mentioned.
StoreOnlyStep ==
    \/ \E p \in Procs, k \in Secrets :
          /\ CanCall(p)
          /\ nCalls' = nCalls + 1
          /\ proc' = [proc EXCEPT ![p] =
                         IF ~authEnabled THEN Returns(Call("verify", k), TRUE, FALSE)
                         ELSE [Call("verify", k) EXCEPT !.pc = "db_read"]]
          /\ store' = store
    \/ \E p \in Procs :
          /\ proc[p].pc = "db_read"
          /\ LET rec == store[proc[p].key]
             IN  proc' = [proc EXCEPT ![p] =
                            IF rec = NoRecord THEN Returns(@, FALSE, FALSE)
                            ELSE IF ~(rec.is_active /\ rec.expires_at # "passed")
                            THEN Returns(@, FALSE, rec.is_admin)
                            ELSE [@ EXCEPT !.pc = "db_commit",
                                           !.adm = rec.is_admin,
                                           !.usage = rec.usage_count]]
          /\ store' = store /\ nCalls' = nCalls
    \/ \E p \in Procs :
          /\ proc[p].pc = "db_commit"
          /\ store' = [store EXCEPT ![proc[p].key].usage_count = proc[p].usage + 1]
          /\ proc' = [proc EXCEPT ![p].pc = "cache_set"]
          /\ nCalls' = nCalls
    \/ \E p \in Procs :
          /\ proc[p].pc = "cache_set"
          /\ proc' = [proc EXCEPT ![p] = Returns(@, TRUE, @.adm)]
          /\ store' = store /\ nCalls' = nCalls
    \/ \E p \in Procs, k \in Secrets :
          /\ CanCall(p)
          /\ nCalls' = nCalls + 1
          /\ IF store[k] = NoRecord
             THEN /\ proc' = [proc EXCEPT ![p] =
                                Returns(Call("revoke", k), FALSE, FALSE)]
                  /\ store' = store
             ELSE /\ store' = [store EXCEPT ![k].is_active = FALSE]
                  /\ proc' = [proc EXCEPT ![p] =
                                [Call("revoke", k) EXCEPT !.pc = "invalidate"]]
    \/ \E p \in Procs :
          /\ proc[p].pc = "invalidate"
          /\ proc' = [proc EXCEPT ![p] = Returns(@, TRUE, FALSE)]
          /\ store' = store /\ nCalls' = nCalls
    \/ \E p \in Procs, k \in Secrets, adm \in BOOLEAN :
          /\ CanCall(p)
          /\ nCalls' = nCalls + 1
          /\ IF store[k] = NoRecord
             THEN /\ proc' = [proc EXCEPT ![p] =
                                Returns(Call("set_admin", k), FALSE, adm)]
                  /\ store' = store
             ELSE /\ store' = [store EXCEPT ![k].is_admin = adm]
                  /\ proc' = [proc EXCEPT ![p] =
                                Returns(Call("set_admin", k), TRUE, adm)]
    \/ \E p \in Procs, k \in StoredKeys, name \in KeyNames,
          exp \in {"None", "later"}, adm \in BOOLEAN :
          /\ CanCall(p)
          /\ nCalls' = nCalls + 1
          /\ store[k] = NoRecord
          /\ store' = [store EXCEPT ![k] =
                          [name |-> IF name = NoKeyName
                                    THEN <<"k", "e", "y", "_">> \o SubSeq(k, 1, 8)
                                    ELSE name,
                           is_active |-> TRUE, expires_at |-> exp,
                           usage_count |-> 0, is_admin |-> adm]]
          /\ proc' = [proc EXCEPT ![p] = Returns(Call("generate", k), TRUE, adm)]
    \/ \E k \in StoredKeys :
          /\ store[k] # NoRecord
          /\ store[k].expires_at \in {"later", "now"}
          /\ store' = [store EXCEPT ![k].expires_at =
                           IF @ = "later" THEN "now" ELSE "passed"]
          /\ proc' = proc /\ nCalls' = nCalls

\* C25: with the cache off, every step of verify, revoke and set_admin is a
\* step of the store-only implementation (the same results, the same store,
\* whatever the Redis server holds), and no step writes to the cache (an
\* entry changes only by running out).
C25_CacheOffIsStoreOnly ==
    /\ [][~cacheEnabled => StoreOnlyStep]_<<store, proc, nCalls>>
    /\ [][~cacheEnabled =>
             \A ck \in CacheKeys : cache'[ck] \in {cache[ck], NoEntry}]_vars

\* C25, its case: with the cache off a verification has answered not valid
\* while the Redis server holds a valid entry under the key's cache key.
C25_StaleEntryIgnored ==
    \E p \in Procs :
        /\ ~cacheEnabled /\ authEnabled
        /\ proc[p].ret.op = "verify" /\ ~proc[p].ret.ok
        /\ cache[GetCacheKey(proc[p].ret.key)] # NoEntry

\* C26: a failed probe of b adds exactly one to b.consecutive_failures, a
\* successful probe sets it to 0 and makes an Unhealthy b Healthy, also when
\* a periodic and a manual probe of b are in flight together; no step gives
\* the counter of a backend any other value than its old one, its old one
\* plus one, or 0.
C26_ProbeUpdatesAtomic ==
    [][/\ \A p \in ProbeTasks :
             (ProbeFail(p) /\ ~probe[p].orphan)
                => metrics'[probe[p].name].consecutive_failures
                      = metrics[probe[p].name].consecutive_failures + 1
       /\ \A p \in ProbeTasks :
             ((\E d \in Durations : ProbeOk(p, d)) /\ ~probe[p].orphan)
                => LET b == probe[p].name
                   IN  /\ metrics'[b].consecutive_failures = 0
                       /\ metrics[b].status = "unhealthy"
                             => metrics'[b].status = "healthy"
       /\ \A b \in Names :
             (Registered(b) /\ metrics'[b] # NoMetrics)
                => metrics'[b].consecutive_failures
                      \in {metrics[b].consecutive_failures,
                           metrics[b].consecutive_failures + 1, 0}]_vars

\* C26, its case: two probes of one backend were started together; the
\* first has failed and is counted, the second is still in flight.
C26_SecondProbeInFlight ==
    \E b \in Names :
        /\ nOps = 2
        /\ Registered(b)
        /\ metrics[b].status = "healthy" /\ metrics[b].consecutive_failures = 1
        /\ \E p \in ProbeTasks : probe[p] = [name |-> b, orphan |-> FALSE]

\* C27: enable(b) leaves b Healthy with consecutive_failures at 0 (so that
\* a re-enabled backend turns Unhealthy only after failure_threshold new
\* failed probes in a row).
C27_EnableResetsCount ==
    [][\A b \in Names :
          enable_backend(b)
             => (metrics'[b].status = "healthy"
                   /\ metrics'[b].consecutive_failures = 0)]_vars

\* the number of select_backend calls that returned a backend so far, in a
\* run in which no connection has been released
PicksSoFar ==
    SumSeq([i \in 1..Len(mOrder) |-> metrics[mOrder[i]].active_connections])

\* the step is a select_backend call that returns b
PickOf(b) ==
    metrics'[b].active_connections = metrics[b].active_connections + 1

\* C28: under round_robin the pick is S[cursor mod |S|] for the Healthy
\* list S of the moment, the cursor being the number of earlier picks (it
\* grows by one with every pick, also when |S| changes between picks).
C28_RoundRobinCountsPicks ==
    [][\A b \in Names :
          (strategy = "round_robin" /\ PickOf(b))
             => LET S == GetAvailableBackends
                IN  b = S[(PicksSoFar % Len(S)) + 1]]_vars

\* C29: under consistent_hash the pick for a key is the backend of the first
\* virtual node at or after MD5(key) whose backend is Healthy, the walk
\* going on from the top of the ring to its lowest nodes; it is a Healthy
\* backend whenever a registered backend is Healthy.
C29_FirstHealthyClockwise ==
    \A k \in HashKeys :
        LET healthy == {i \in HashRing :
                          metrics[RingTable[i][1]].status = "healthy"}
            after == {i \in healthy : i > KeyPos(k)}
        IN  HashPick(k) =
               IF after # {} THEN RingTable[SetMin(after)][1]
               ELSE IF healthy # {} THEN RingTable[SetMin(healthy)][1]
               ELSE NoName

\* C30: under response_time the pick is the Healthy backend with the
\* smallest mean response time among those that have a sample; when no
\* Healthy backend has a sample, successive picks rotate over the Healthy
\* backends as round-robin does.
C30_FastestElseRotate ==
    [][\A b \in Names :
          (strategy = "response_time" /\ PickOf(b))
             => LET S == GetAvailableBackends
                    sampled == {c \in Range(S) : metrics[c].response_times # <<>>}
                IN  IF sampled = {}
                    THEN b = S[(PicksSoFar % Len(S)) + 1]
                    ELSE /\ b \in sampled
                         /\ \A c \in sampled :
                               ~AvgLess(metrics[c], metrics[b])]_vars

\* ---------------------------------------------- claims, least connections
\* the place of a name in name-sorted order
NameRank(b) == CASE b = "A" -> 1 [] b = "B" -> 2 [] b = "C" -> 3

\* the Healthy backend with the fewest active connections, the first in
\* name-sorted order among those with equal counts
SortedLeast ==
    CHOOSE b \in Range(GetAvailableBackends) :
        \A c \in Range(GetAvailableBackends) :
            \/ metrics[b].active_connections < metrics[c].active_connections
            \/ /\ metrics[b].active_connections = metrics[c].active_connections
               /\ NameRank(b) <= NameRank(c)

\* C31: under least_connections the pick of select_backend has the minimal
\* active_connections among the Healthy backends, and between backends with
\* equal counts it is the first in name-sorted order, whatever the order in
\* which the backends were registered
C31_LeastConnectionsSortedTie ==
    (strategy = "least_connections" /\ GetAvailableBackends # <<>>)
        => \A o \in select_backend("default") :
               ~o.err => o.backend = SortedLeast

\* ------------------------------------------------- claims, the normalizer
\* C32: a conversion request acquires a slot of the concurrency pool before
\* it is dispatched to a worker of the worker pool: no worker thread is ever
\* occupied by a request that is waiting for a concurrency slot (it stands
\* at semaphore.acquire() while no slot is free)
C32_SlotBeforeWorker ==
    \A j \in Jobs :
        ~(job[j].pc = "acquire" /\ cm[job[j].mgr].semaphore = 0)

\* the upload of call j passed the validation of save_upload_file
Accepted(j) ==
    is_allowed_file(job[j].filename) /\ job[j].content # EmptyContent

\* the upload of call j is a WAV file with the canonical parameters
CompliantWav(j) ==
    /\ RsplitExt(job[j].filename) = <<"wav">>
    /\ job[j].content.container = "wav"
    /\ job[j].content.frame_rate = WavFrameRate
    /\ job[j].content.channels = WavChannels
    /\ job[j].content.sample_width = WavSampleWidth

\* C33: process_and_convert_audio returns a wav path equal to the original
\* path, without invoking the transcoder, exactly when the upload is a WAV
\* file whose sample rate, channel count and sample width are 16000, 1 and
\* 2; in every other accepted case it invokes the transcoder once on the
\* original path, and a wav path it returns differs from the original
C33_EqualPathsIffCompliantWav ==
    \A j \in Jobs :
        (job[j].result # "-" /\ Accepted(j)) =>
            IF CompliantWav(j)
            THEN /\ job[j].result = "returned"
                 /\ job[j].wav = job[j].original
                 /\ job[j].runs = 0
            ELSE /\ job[j].runs = 1
                 /\ job[j].input = job[j].original
                 /\ job[j].result = "returned"
                       => job[j].wav # job[j].original

\* C35: cleanup_converted_file(path, original) deletes the file at path when
\* path differs from original and never deletes the file at original; when
\* path equals original it deletes nothing and returns true
C35_CleanupFrame ==
    [][\A j \in Jobs :
          (job[j].pc = "returned" /\ job'[j].pc = "cleaned") =>
              LET c == job'[j].cleanup
              IN  /\ c.file_path # c.original_path => c.file_path \notin disk'
                  /\ c.original_path \in disk => c.original_path \in disk'
                  /\ c.file_path = c.original_path
                        => disk' = disk /\ c.ret = TRUE]_vars

\* the helper was called with the converted file as path: the converted file
\* is gone and the original file is still there
C35_ConvertedRemoved ==
    \E j \in Jobs :
        /\ job[j].pc = "cleaned"
        /\ job[j].cleanup.file_path = job[j].output
        /\ job[j].cleanup.original_path = job[j].original
        /\ job[j].output \notin disk
        /\ job[j].original \in disk

\* the calls that hold a slot of manager m, and those counted as active
Holding(m) ==
    {j \in Jobs : job[j].mgr = m
                    /\ job[j].pc \in {"entered", "transcoding", "exit",
                                      "release"}}
Counted(m) ==
    {j \in Jobs : job[j].mgr = m /\ job[j].pc \in {"transcoding", "exit"}}

\* C39: in every reachable state 0 <= active_conversions <= N; every
\* conversion that acquires a slot releases it exactly once whether the
\* transcode succeeds or raises (the free slots are N less the calls between
\* acquire and release, the active count is the number of calls between the
\* two counter updates), so with no conversion in progress
\* active_conversions is 0 and all N slots are free; total_conversions never
\* decreases
C39_SlotsAccounted ==
    /\ [](\A m \in 1..Len(cm) :
            /\ cm[m].active_conversions >= 0
            /\ cm[m].active_conversions <= ConcurrencySlots
            /\ cm[m].semaphore = ConcurrencySlots - Cardinality(Holding(m))
            /\ cm[m].active_conversions = Cardinality(Counted(m))
            /\ Holding(m) = {} =>
                  /\ cm[m].active_conversions = 0
                  /\ cm[m].semaphore = ConcurrencySlots)
    /\ [][\A m \in 1..Len(cm) :
             cm'[m].total_conversions >= cm[m].total_conversions]_vars

\* a transcode has raised, another has succeeded, and no conversion is in
\* progress
C39_AtRestAfterRaise ==
    /\ Len(cm) >= 1
    /\ \E j \in Jobs : job[j].result = "IOError" /\ job[j].runs = 1
    /\ \E j \in Jobs : job[j].result = "returned"
    /\ \A j \in Jobs : job[j].pc \notin WorkerPcs

\* -------------------------------------------------- claims, the parser
\* C34: for every reply text t the result of the parser maps the key
\* raw_text to t verbatim, whatever section headers t contains (a line whose
\* header is raw_text included) and whether or not sectioning fails
C34_RawTextVerbatim ==
    DOMAIN parsed # {} =>
        /\ RawKey \in DOMAIN parsed
        /\ parsed[RawKey] = reply

\* ------------------------------------------- claims, the connection count
\* the attempts that have picked b and not yet released it
InFlight(b) ==
    {r \in Reqs :
        /\ req[r].backend = b
        /\ req[r].pc \in {"resolve", "call", "record_upd", "release_chk",
                          "release_upd"}}

\* C36: in every reachable state active_connections(b) equals the number of
\* attempts that have picked b and not yet released it, also across
\* disable/enable of b, add_backend of a name that is already registered and
\* remove_backend while attempts on b are in flight
C36_ActiveCountsInFlight ==
    \A b \in Names :
        Registered(b) => ActiveOf(b) = Cardinality(InFlight(b))

\* ------------------------------------------------ claims, the cache in time
\* verify(k) is entered by process p in this step
VerifyStarts(p, k) ==
    /\ proc[p].pc = "idle"
    /\ proc'[p].op = "verify"
    /\ proc'[p].key = k
    /\ proc'[p].pc \in {"stats_read", "db_read"}

\* C37: cached credential state is stale for at most the TTL: no step but a
\* write of the entry raises the time an entry has left (a hit does not
\* extend it), and every verify(k) that starts more than TTL after the
\* record of k became invalid in the store (revoked, expired or deactivated
\* by cleanup_expired_keys) goes to the store and returns valid = false
C37_StaleAtMostTtl ==
    [][/\ \A ck \in CacheKeys :
             (cache[ck] # NoEntry /\ cache'[ck] # NoEntry
                 /\ \A p \in Procs : proc[p].pc # "cache_set")
                 => cache'[ck].ttl <= cache[ck].ttl
       /\ \A p \in Procs, k \in Secrets :
             (VerifyStarts(p, k) /\ invalidFor[k] > CacheTtl)
                 => proc'[p].pc = "db_read"
       /\ \A p \in Procs :
             (/\ proc[p].pc = "db_read"
              /\ proc'[p].pc # "db_read"
              /\ invalidFor[proc[p].key] > CacheTtl)
                 => /\ proc'[p].ret # NoRet
                    /\ ~proc'[p].ret.ok]_vars

\* -------------------------------------------- claims, the health-check loop
\* the loops that have not ended
Running == {i \in DOMAIN loops : loops[i].pc # "done"}

RunningAfter == {i \in DOMAIN loops' : loops'[i].pc # "done"}

Called(op) == hcCalls' = Append(hcCalls, op)

\* C38: after any calls of start_health_check and stop_health_check at most
\* one health-check loop is running; a start while a loop is running creates
\* no loop, a stop while none is running changes nothing, a start once the
\* stops have returned leaves a loop running that is not cancelled, and a
\* probing round that raises leaves its loop in the next sleep
C38_OneLoop ==
    /\ [](Cardinality(Running) <= 1)
    /\ [][/\ (Called("start") /\ Running # {}) => loops' = loops
          /\ (Called("stop") /\ Running = {})
                => UNCHANGED <<hcTask, loops, waiter>>
          /\ (Called("start") /\ \A c \in Callers : waiter[c] = 0)
                => \E i \in RunningAfter :
                      RunningAfter = {i} /\ ~loops'[i].cancelled
          /\ \A i \in DOMAIN loops :
                (loops[i].pc = "probing" /\ loops'[i].logged
                    /\ loops'[i] # loops[i] /\ ~loops'[i].cancelled)
                    => loops'[i].pc = "sleeping"]_vars

\* C38 witness: a loop was stopped, a second one was started after the stop
\* returned, and it has been through a round that raised
C38_RestartedAndSurvived ==
    /\ Len(loops) >= 2
    /\ loops[1].pc = "done"
    /\ loops[Len(loops)].pc = "sleeping"
    /\ loops[Len(loops)].logged
    /\ \A c \in Callers : waiter[c] = 0

\* ------------------------------------------- claims, the registered backends
\* C40: after any calls of add_backend and remove_backend the backends map
\* and the metrics map have the same keys, and every entry of the hash ring
\* names a backend that has metrics, so the lookup on the ring reads the
\* metrics of registered backends only
C40_RingNamesRegistered ==
    /\ DOMAIN backends = DOMAIN metrics
    /\ \A b \in DOMAIN backends :
          (backends[b] # NoCfg) <=> (metrics[b] # NoMetrics)
    /\ \A i \in HashRing :
          /\ RingTable[i][1] \in DOMAIN metrics
          /\ metrics[RingTable[i][1]] # NoMetrics

\* C40 witness: after a remove_backend and an add_backend one name is gone
\* and the ring holds nodes of the others
C40_RemovedAndAdded ==
    /\ nOps >= 2
    /\ admin.op = "add"
    /\ backends["A"] = NoCfg
    /\ HashRing # {}

================================================================
